---- MODULE Spec2Model ----
(***************************************************************************)
(* The transaction command processor of src/storage/txn/process.rs:        *)
(* Executor (execute, process_by_worker, process_read, process_write),     *)
(* process_read_impl, process_write_impl and their helpers, over a model   *)
(* of the engine, the MVCC layer and the lock (waiter) manager they call.  *)
(***************************************************************************)
EXTENDS Integers, Sequences, FiniteSets, TLC

VARIABLES
    db,        \* the engine's committed state: lock, write and default column families
    lockMgr,   \* Executor.lock_mgr: TRUE when it is Some(_)
    task,      \* per command id: the Task handed to execute and where its jobs stand
    msgs,      \* per command id: the Msg values posted by notify_scheduler, in order
    wakeups,   \* per command id: the LockManager::wake_up calls made, in order
    engineLog, \* per command id: the batches handed to Engine::async_write, in order
    probe      \* the last direct call of a processor function and what it returned

vars == <<db, lockMgr, task, msgs, wakeups, engineLog, probe>>

(***************************************************************************)
(* Bounds of the model.                                                    *)
(***************************************************************************)
\* Keys are 1..NumKeys; a Prewrite needs more than FORWARD_MIN_MUTATIONS_NUM of them.
NumKeys == 13
\* Timestamps handed out by the oracle are 1..MaxTs; 0 is TimeStamp::zero().
MaxTs == 4
\* Command ids handed to execute are 1..MaxCid.
MaxCid == 2
\* MVCC's MAX_TXN_WRITE_SIZE (32 KB in the MVCC layer), scaled to the model's
\* write sizes (a resolved key writes 3 to 6 units).
MAX_TXN_WRITE_SIZE == 7
\* RESOLVE_LOCK_BATCH_SIZE (256 in the source), scaled to the model's key space.
RESOLVE_LOCK_BATCH_SIZE == 3

(***************************************************************************)
(* Program constants.                                                      *)
(***************************************************************************)
FORWARD_MIN_MUTATIONS_NUM == 12

Keys == 1..NumKeys
Ts == 0..MaxTs
StartTs == 1..MaxTs
Cids == 1..MaxCid
\* TimeStamp::max()
TsMax == MaxTs + 1

Max(a, b) == IF a >= b THEN a ELSE b

Range(s) == {s[i] : i \in DOMAIN s}

\* F applied to the value of v, which is computed once.
LetIn(v, F(_)) == CHOOSE r \in {F(x) : x \in {v}} : TRUE

(***************************************************************************)
(* Keys.  A Key is the memcomparable encoding of a raw key; the encoding   *)
(* preserves order and is undone by into_raw.  Raw keys are 0..NumKeys-1.  *)
(***************************************************************************)
FromRaw(raw) == raw + 1

IntoRaw(key) == key - 1

\* Key::gen_hash: a 64-bit hash of the encoded key; distinct keys may collide.
GenHash(key) == (key * 5 + 3) % 8

\* The encoded length of a key, as Modify::size counts it.
KeyLen(key) == 1 + (key % 2)

(***************************************************************************)
(* The engine: three column families.                                      *)
(*   locks[k]    the lock on k, or NoLock                                  *)
(*   writes[k]   the write records of k, at most one per commit_ts         *)
(*   defaults[k] the start_ts of the long values stored for k              *)
(***************************************************************************)
NoLock == [type |-> "None", ts |-> 0, primary |-> 0, for_update_ts |-> 0,
           ttl |-> 0, long |-> FALSE]

NoWrite == [type |-> "None", commit_ts |-> 0, start_ts |-> 0, long |-> FALSE]

EmptyDb == [locks |-> [k \in Keys |-> NoLock],
            writes |-> [k \in Keys |-> {}],
            defaults |-> [k \in Keys |-> {}]]

\* One Modify of a write batch.
PutLock(key, lock) == [op |-> "Put", cf |-> "lock", key |-> key, ts |-> 0,
                       lock |-> lock, write |-> NoWrite]

DeleteLock(key) == [op |-> "Delete", cf |-> "lock", key |-> key, ts |-> 0,
                    lock |-> NoLock, write |-> NoWrite]

PutWrite(key, commit_ts, write) == [op |-> "Put", cf |-> "write", key |-> key,
                                    ts |-> commit_ts, lock |-> NoLock, write |-> write]

PutValue(key, ts) == [op |-> "Put", cf |-> "default", key |-> key, ts |-> ts,
                      lock |-> NoLock, write |-> NoWrite]

DeleteValue(key, ts) == [op |-> "Delete", cf |-> "default", key |-> key, ts |-> ts,
                         lock |-> NoLock, write |-> NoWrite]

\* Modify::size: the key's length plus, for a Put, the value's.
ModifySize(m) ==
    IF m.op = "Delete" THEN KeyLen(m.key)
    ELSE IF m.cf = "default" THEN KeyLen(m.key) + 2
    ELSE KeyLen(m.key) + 1

\* The engine applies one Modify.
ApplyModify(d, m) ==
    IF m.cf = "lock" THEN
        [d EXCEPT !.locks[m.key] = IF m.op = "Put" THEN m.lock ELSE NoLock]
    ELSE IF m.cf = "write" THEN
        [d EXCEPT !.writes[m.key] =
            {w \in @ : w.commit_ts # m.ts}
              \cup (IF m.op = "Put" THEN {m.write} ELSE {})]
    ELSE
        [d EXCEPT !.defaults[m.key] =
            IF m.op = "Put" THEN @ \cup {m.ts} ELSE @ \ {m.ts}]

\* The engine applies a write batch, in order.
RECURSIVE ApplyFrom(_, _, _)
ApplyFrom(d, mods, i) ==
    IF i > Len(mods) THEN d
    ELSE LetIn(ApplyModify(d, mods[i]), LAMBDA e : ApplyFrom(e, mods, i + 1))

ApplyWrite(d, mods) == ApplyFrom(d, mods, 1)

(***************************************************************************)
(* The MVCC layer (crate::storage::mvcc): MvccReader and MvccTxn over a    *)
(* snapshot.  A transaction reads the snapshot and buffers its Modify's.   *)
(***************************************************************************)
NoErr == [kind |-> "None", key |-> 0, lock_version |-> 0, primary |-> 0, ttl |-> 0,
          start_ts |-> 0, commit_ts |-> 0]

MvccErr(kind, key, start_ts, commit_ts) ==
    [NoErr EXCEPT !.kind = kind, !.key = IntoRaw(key), !.start_ts = start_ts,
                  !.commit_ts = commit_ts]

\* MvccErrorInner::KeyIsLocked(lock.into_lock_info(key.into_raw()))
KeyIsLocked(key, lock) ==
    [NoErr EXCEPT !.kind = "KeyIsLocked", !.key = IntoRaw(key),
                  !.lock_version = lock.ts, !.primary = lock.primary, !.ttl = lock.ttl]

\* MvccReader::load_lock
load_lock(snap, key) == snap.locks[key]

\* MvccReader::seek_write: the newest write record of key with commit_ts <= ts.
seek_write(snap, key, ts) ==
    LET below == {w \in snap.writes[key] : w.commit_ts <= ts}
    IN  IF below = {} THEN NoWrite
        ELSE CHOOSE w \in below : \A v \in below : v.commit_ts <= w.commit_ts

\* MvccReader::get_txn_commit_info: the write record of key left by start_ts.
get_txn_commit_info(snap, key, start_ts) ==
    LET mine == {w \in snap.writes[key] : w.start_ts = start_ts}
    IN  IF mine = {} THEN NoWrite
        ELSE CHOOSE w \in mine : \A v \in mine : v.commit_ts <= w.commit_ts

\* MvccReader::get: whether key has a value visible at ts (the newest Put or
\* Delete record at or below ts is a Put).
key_exists(snap, key, ts) ==
    LET data == {w \in snap.writes[key] :
                    w.commit_ts <= ts /\ w.type \in {"Put", "Delete"}}
    IN  /\ data # {}
        /\ (CHOOSE w \in data : \A v \in data : v.commit_ts <= w.commit_ts).type = "Put"

\* MvccReader::scan_locks: up to limit locks passing the filter, in key order,
\* from start (0 is None); the flag says whether the scan stopped at the limit.
\* The filter closure is given by the set of lock timestamps it accepts.
RECURSIVE scan_from(_, _, _, _, _)
scan_from(snap, accepted, k, limit, acc) ==
    IF k > NumKeys THEN <<acc, FALSE>>
    ELSE IF load_lock(snap, k).type # "None" /\ load_lock(snap, k).ts \in accepted THEN
        IF limit > 0 /\ Len(acc) + 1 = limit
            THEN <<Append(acc, <<k, load_lock(snap, k)>>), TRUE>>
        ELSE LetIn(Append(acc, <<k, load_lock(snap, k)>>),
                   LAMBDA a : scan_from(snap, accepted, k + 1, limit, a))
    ELSE scan_from(snap, accepted, k + 1, limit, acc)

scan_locks(snap, start, accepted, limit) ==
    scan_from(snap, accepted, IF start = 0 THEN 1 ELSE start, limit, <<>>)

\* mvcc::has_data_in_range on CF_WRITE: a write record at or after left and
\* strictly before right.  right is last_key.append_ts(0), the last version of
\* last_key, so a record of last_key at commit_ts 0 is outside the range.
has_data_in_range(snap, left_key, right_key, right_ts) ==
    \E k \in Keys : \E w \in snap.writes[k] :
        /\ left_key <= k
        /\ k < right_key \/ (k = right_key /\ w.commit_ts > right_ts)

\* MvccTxn::new / MvccTxn::for_scan
MvccTxn(snap, start_ts) == [snap |-> snap, start_ts |-> start_ts, writes |-> <<>>]

TxnOk(txn, val) == [err |-> NoErr, txn |-> txn, val |-> val]

TxnErr(txn, err) == [err |-> err, txn |-> txn, val |-> FALSE]

IsOk(r) == r.err.kind = "None"

Buffer(txn, mods) == [txn EXCEPT !.writes = @ \o mods]

\* MvccTxn::into_modifies
into_modifies(txn) == txn.writes

\* MvccTxn::write_size
RECURSIVE SizeFrom(_, _)
SizeFrom(mods, i) == IF i > Len(mods) THEN 0 ELSE ModifySize(mods[i]) + SizeFrom(mods, i + 1)

write_size(txn) == SizeFrom(txn.writes, 1)

\* A lock's ttl has run out at current_ts.
Expired(lock, current_ts) == lock.ts + lock.ttl < current_ts

\* LockType::from_mutation
LockTypeOf(m) == IF m.op = "Insert" THEN "Put" ELSE m.op

\* MvccTxn::prewrite_key_value: the lock, and the value when it is a long one.
prewrite_key_value(txn, m, primary, for_update_ts, ttl) ==
    Buffer(txn,
        (IF m.long /\ LockTypeOf(m) = "Put" THEN <<PutValue(m.key, txn.start_ts)>> ELSE <<>>)
        \o <<PutLock(m.key, [type |-> LockTypeOf(m), ts |-> txn.start_ts,
                             primary |-> primary, for_update_ts |-> for_update_ts,
                             ttl |-> ttl, long |-> m.long /\ LockTypeOf(m) = "Put"])>>)

\* The constraint check of MvccTxn::prewrite: a write at or after start_ts is a
\* conflict; an Insert on a key that exists is AlreadyExist.
constraint_check(txn, m) ==
    LET w == seek_write(txn.snap, m.key, TsMax)
    IN  IF w.type = "None" THEN NoErr
        ELSE IF w.commit_ts >= txn.start_ts
            THEN MvccErr("WriteConflict", m.key, txn.start_ts, w.commit_ts)
        ELSE IF m.op = "Insert" /\ key_exists(txn.snap, m.key, w.commit_ts)
            THEN MvccErr("AlreadyExist", m.key, txn.start_ts, w.commit_ts)
        ELSE NoErr

\* MvccTxn::prewrite (optimistic)
prewrite(txn, m, primary, options) ==
    LET c == IF options.skip_constraint_check THEN NoErr ELSE constraint_check(txn, m)
        lock == load_lock(txn.snap, m.key)
    IN  IF c.kind # "None" THEN TxnErr(txn, c)
        ELSE IF lock.type # "None" THEN
            IF lock.ts # txn.start_ts THEN TxnErr(txn, KeyIsLocked(m.key, lock))
            ELSE IF lock.type = "Pessimistic"
                THEN TxnErr(txn, MvccErr("LockTypeNotMatch", m.key, txn.start_ts, 0))
            ELSE TxnOk(txn, TRUE)
        ELSE TxnOk(prewrite_key_value(txn, m, primary, 0, options.lock_ttl), TRUE)

\* MvccTxn::pessimistic_prewrite
pessimistic_prewrite(txn, m, primary, is_pessimistic_lock, options) ==
    LET lock == load_lock(txn.snap, m.key)
        put == TxnOk(prewrite_key_value(txn, m, primary, options.for_update_ts,
                                        options.lock_ttl), TRUE)
    IN  IF lock.type # "None" THEN
            IF lock.ts # txn.start_ts THEN
                IF is_pessimistic_lock
                    THEN TxnErr(txn, MvccErr("PessimisticLockNotFound", m.key, txn.start_ts, 0))
                ELSE TxnErr(txn, KeyIsLocked(m.key, lock))
            ELSE IF lock.type # "Pessimistic" THEN TxnOk(txn, TRUE)
            ELSE put
        ELSE IF is_pessimistic_lock
            THEN TxnErr(txn, MvccErr("PessimisticLockNotFound", m.key, txn.start_ts, 0))
        ELSE put

\* MvccTxn::acquire_pessimistic_lock
acquire_pessimistic_lock(txn, key, primary, should_not_exist, options) ==
    LET lock == load_lock(txn.snap, key)
        w == seek_write(txn.snap, key, TsMax)
        newlock == [type |-> "Pessimistic", ts |-> txn.start_ts, primary |-> primary,
                    for_update_ts |-> options.for_update_ts, ttl |-> options.lock_ttl,
                    long |-> FALSE]
    IN  IF lock.type # "None" THEN
            IF lock.ts # txn.start_ts THEN TxnErr(txn, KeyIsLocked(key, lock))
            ELSE IF lock.type # "Pessimistic"
                THEN TxnErr(txn, MvccErr("LockTypeNotMatch", key, txn.start_ts, 0))
            ELSE IF options.for_update_ts > lock.for_update_ts
                THEN TxnOk(Buffer(txn, <<PutLock(key, newlock)>>), TRUE)
            ELSE TxnOk(txn, TRUE)
        ELSE IF w.type # "None" /\ w.commit_ts > options.for_update_ts
            THEN TxnErr(txn, MvccErr("WriteConflict", key, txn.start_ts, w.commit_ts))
        ELSE IF w.type # "None" /\ should_not_exist /\ key_exists(txn.snap, key, w.commit_ts)
            THEN TxnErr(txn, MvccErr("AlreadyExist", key, txn.start_ts, w.commit_ts))
        ELSE TxnOk(Buffer(txn, <<PutLock(key, newlock)>>), TRUE)

\* MvccTxn::commit: turns the lock of start_ts on key into a write record at
\* commit_ts and removes the lock; answers whether the lock was pessimistic.
commit(txn, key, commit_ts) ==
    LET lock == load_lock(txn.snap, key)
        wtype == IF lock.type = "Pessimistic" THEN "Lock" ELSE lock.type
    IN  IF lock.type # "None" /\ lock.ts = txn.start_ts THEN
            TxnOk(Buffer(txn, <<PutWrite(key, commit_ts,
                                    [type |-> wtype, commit_ts |-> commit_ts,
                                     start_ts |-> txn.start_ts, long |-> lock.long]),
                                DeleteLock(key)>>),
                  lock.for_update_ts # 0)
        ELSE TxnErr(txn, MvccErr("TxnLockNotFound", key, txn.start_ts, commit_ts))

\* MvccTxn::rollback_lock: removes the lock (and its long value) and leaves a
\* rollback record at start_ts.
rollback_lock(txn, key, lock) ==
    TxnOk(Buffer(txn,
            (IF lock.long THEN <<DeleteValue(key, lock.ts)>> ELSE <<>>)
            \o <<PutWrite(key, txn.start_ts,
                    [type |-> "Rollback", commit_ts |-> txn.start_ts,
                     start_ts |-> txn.start_ts, long |-> FALSE]),
                 DeleteLock(key)>>),
          lock.for_update_ts # 0)

\* The path of rollback and cleanup when start_ts holds no lock on key.
rollback_missing_lock(txn, key) ==
    LET w == get_txn_commit_info(txn.snap, key, txn.start_ts)
    IN  IF w.type = "None" THEN
            TxnOk(Buffer(txn, <<PutWrite(key, txn.start_ts,
                                    [type |-> "Rollback", commit_ts |-> txn.start_ts,
                                     start_ts |-> txn.start_ts, long |-> FALSE])>>),
                  FALSE)
        ELSE IF w.type = "Rollback" THEN TxnOk(txn, FALSE)
        ELSE TxnErr(txn, MvccErr("Committed", key, txn.start_ts, w.commit_ts))

\* MvccTxn::rollback
rollback(txn, key) ==
    LET lock == load_lock(txn.snap, key)
    IN  IF lock.type # "None" /\ lock.ts = txn.start_ts THEN rollback_lock(txn, key, lock)
        ELSE rollback_missing_lock(txn, key)

\* MvccTxn::cleanup
cleanup(txn, key, current_ts) ==
    LET lock == load_lock(txn.snap, key)
    IN  IF lock.type # "None" /\ lock.ts = txn.start_ts THEN
            IF current_ts # 0 /\ ~Expired(lock, current_ts)
                THEN TxnErr(txn, KeyIsLocked(key, lock))
            ELSE rollback_lock(txn, key, lock)
        ELSE rollback_missing_lock(txn, key)

\* MvccTxn::pessimistic_rollback
pessimistic_rollback(txn, key, for_update_ts) ==
    LET lock == load_lock(txn.snap, key)
    IN  IF /\ lock.type = "Pessimistic"
           /\ lock.ts = txn.start_ts
           /\ lock.for_update_ts <= for_update_ts
        THEN TxnOk(Buffer(txn, <<DeleteLock(key)>>), TRUE)
        ELSE TxnOk(txn, TRUE)

\* MvccTxn::txn_heart_beat: answers the lock's ttl after the update.
txn_heart_beat(txn, primary_key, advise_ttl) ==
    LET lock == load_lock(txn.snap, primary_key)
    IN  IF lock.type # "None" /\ lock.ts = txn.start_ts THEN
            IF lock.ttl < advise_ttl
                THEN TxnOk(Buffer(txn, <<PutLock(primary_key,
                                            [lock EXCEPT !.ttl = advise_ttl])>>), advise_ttl)
            ELSE TxnOk(txn, lock.ttl)
        ELSE TxnErr(txn, MvccErr("TxnLockNotFound", primary_key, txn.start_ts, 0))

\* MvccTxn::check_txn_status: answers <<TxnStatus, is_pessimistic_txn>>.
TxnStatus(kind, ttl, commit_ts) == [kind |-> kind, ttl |-> ttl, commit_ts |-> commit_ts]

check_txn_status(txn, primary_key, caller_start_ts, current_ts, rollback_if_not_exist) ==
    LET lock == load_lock(txn.snap, primary_key)
        w == get_txn_commit_info(txn.snap, primary_key, txn.start_ts)
    IN  IF lock.type # "None" /\ lock.ts = txn.start_ts THEN
            IF Expired(lock, current_ts) THEN
                TxnOk(rollback_lock(txn, primary_key, lock).txn,
                      <<TxnStatus("TtlExpire", 0, 0), lock.for_update_ts # 0>>)
            ELSE TxnOk(txn, <<TxnStatus("Uncommitted", lock.ttl, 0), lock.for_update_ts # 0>>)
        ELSE IF w.type = "Rollback" THEN TxnOk(txn, <<TxnStatus("RolledBack", 0, 0), FALSE>>)
        ELSE IF w.type # "None"
            THEN TxnOk(txn, <<TxnStatus("Committed", 0, w.commit_ts), FALSE>>)
        ELSE IF rollback_if_not_exist THEN
            TxnOk(rollback_missing_lock(txn, primary_key).txn,
                  <<TxnStatus("LockNotExist", 0, 0), FALSE>>)
        ELSE TxnErr(txn, MvccErr("TxnNotFound", primary_key, txn.start_ts, 0))

(***************************************************************************)
(* Commands (crate::storage::Command, CommandKind).                        *)
(***************************************************************************)
\* Options of Prewrite and AcquirePessimisticLock.
Options(for_update_ts, skip_constraint_check, is_pessimistic_lock) ==
    [for_update_ts |-> for_update_ts, skip_constraint_check |-> skip_constraint_check,
     is_pessimistic_lock |-> is_pessimistic_lock, lock_ttl |-> 1,
     is_first_lock |-> TRUE, wait_timeout |-> 1]

\* Mutation::Put, Delete, Lock, Insert; long says the value is not a short one.
Mutation(op, key, long) == [op |-> op, key |-> key, long |-> long]

CmdPrewrite(mutations, primary, start_ts, options) ==
    [kind |-> "Prewrite", mutations |-> mutations, primary |-> primary,
     start_ts |-> start_ts, options |-> options]

CmdAcquirePessimisticLock(keys, primary, start_ts, options) ==
    [kind |-> "AcquirePessimisticLock", keys |-> keys, primary |-> primary,
     start_ts |-> start_ts, options |-> options]

CmdCommit(keys, lock_ts, commit_ts) ==
    [kind |-> "Commit", keys |-> keys, lock_ts |-> lock_ts, commit_ts |-> commit_ts]

CmdCleanup(key, start_ts, current_ts) ==
    [kind |-> "Cleanup", key |-> key, start_ts |-> start_ts, current_ts |-> current_ts]

CmdRollback(keys, start_ts) == [kind |-> "Rollback", keys |-> keys, start_ts |-> start_ts]

CmdPessimisticRollback(keys, start_ts, for_update_ts) ==
    [kind |-> "PessimisticRollback", keys |-> keys, start_ts |-> start_ts,
     for_update_ts |-> for_update_ts]

\* txn_status maps a start_ts to its commit_ts (0: rolled back); scan_key 0 is None.
CmdResolveLock(txn_status, scan_key, key_locks) ==
    [kind |-> "ResolveLock", txn_status |-> txn_status, scan_key |-> scan_key,
     key_locks |-> key_locks]

CmdResolveLockLite(start_ts, commit_ts, resolve_keys) ==
    [kind |-> "ResolveLockLite", start_ts |-> start_ts, commit_ts |-> commit_ts,
     resolve_keys |-> resolve_keys]

CmdTxnHeartBeat(primary_key, start_ts, advise_ttl) ==
    [kind |-> "TxnHeartBeat", primary_key |-> primary_key, start_ts |-> start_ts,
     advise_ttl |-> advise_ttl]

CmdCheckTxnStatus(primary_key, lock_ts, caller_start_ts, current_ts, rollback_if_not_exist) ==
    [kind |-> "CheckTxnStatus", primary_key |-> primary_key, lock_ts |-> lock_ts,
     caller_start_ts |-> caller_start_ts, current_ts |-> current_ts,
     rollback_if_not_exist |-> rollback_if_not_exist]

CmdPause(duration) == [kind |-> "Pause", duration |-> duration]

CmdMvccByKey(key) == [kind |-> "MvccByKey", key |-> key]

CmdMvccByStartTs(start_ts) == [kind |-> "MvccByStartTs", start_ts |-> start_ts]

CmdScanLock(max_ts, start_key, limit) ==
    [kind |-> "ScanLock", max_ts |-> max_ts, start_key |-> start_key, limit |-> limit]

\* Command::readonly: the read kinds, and ResolveLock while it has no key_locks.
readonly(cmd) ==
    \/ cmd.kind \in {"MvccByKey", "MvccByStartTs", "ScanLock"}
    \/ cmd.kind = "ResolveLock" /\ cmd.key_locks = <<>>

\* Command::ts: the start timestamp of the command's transaction.
CmdTs(cmd) ==
    IF cmd.kind \in {"Prewrite", "AcquirePessimisticLock", "Cleanup", "Rollback",
                     "PessimisticRollback", "ResolveLockLite", "TxnHeartBeat",
                     "MvccByStartTs"}
        THEN cmd.start_ts
    ELSE IF cmd.kind \in {"Commit", "CheckTxnStatus"} THEN cmd.lock_ts
    ELSE 0

(***************************************************************************)
(* ProcessResult and WriteResult.                                          *)
(***************************************************************************)
PrRes == [kind |-> "Res"]

PrMultiRes(results) == [kind |-> "MultiRes", results |-> results]

PrTxnStatus(txn_status) == [kind |-> "TxnStatus", txn_status |-> txn_status]

PrNextCommand(cmd) == [kind |-> "NextCommand", cmd |-> cmd]

PrMvccKey(mvcc) == [kind |-> "MvccKey", mvcc |-> mvcc]

PrMvccStartTs(found, key, mvcc) ==
    [kind |-> "MvccStartTs", found |-> found, key |-> key, mvcc |-> mvcc]

PrLocks(locks) == [kind |-> "Locks", locks |-> locks]

PrFailed(err) == [kind |-> "Failed", err |-> err]

\* Option<Vec<u64>>
None == [some |-> FALSE, v |-> <<>>]

Some(v) == [some |-> TRUE, v |-> v]

\* lock_manager::Lock
Lock(ts, hash) == [ts |-> ts, hash |-> hash]

\* Option<(lock_manager::Lock, is_first_lock, wait_timeout)>
NoLockInfo == [some |-> FALSE, lock |-> Lock(0, 0), is_first_lock |-> FALSE,
               wait_timeout |-> 0]

\* What process_write_impl gives back: Ok(WriteResult), Err(err), or a panic;
\* wakes are the LockManager::wake_up calls it made on the way.
WriteOk(pr, to_be_write, rows, lock_info, wakes) ==
    [outcome |-> "Ok", err |-> NoErr, pr |-> pr, to_be_write |-> to_be_write,
     rows |-> rows, lock_info |-> lock_info, wakes |-> wakes]

WriteErr(err, wakes) ==
    [outcome |-> "Err", err |-> err, pr |-> PrRes, to_be_write |-> <<>>,
     rows |-> 0, lock_info |-> NoLockInfo, wakes |-> wakes]

WritePanic(wakes) ==
    [outcome |-> "Panic", err |-> NoErr, pr |-> PrRes, to_be_write |-> <<>>,
     rows |-> 0, lock_info |-> NoLockInfo, wakes |-> wakes]

\* ErrorInner::InvalidTxnTso
InvalidTxnTso(start_ts, commit_ts) ==
    [NoErr EXCEPT !.kind = "InvalidTxnTso", !.start_ts = start_ts, !.commit_ts = commit_ts]

(***************************************************************************)
(* Helpers of the write processor.                                         *)
(***************************************************************************)
\* keys.iter().map(|key| key.gen_hash()).collect()
RECURSIVE HashesFrom(_, _)
HashesFrom(keys, i) ==
    IF i > Len(keys) THEN <<>> ELSE <<GenHash(keys[i])>> \o HashesFrom(keys, i + 1)

\* A faulty variant of gen_key_hashes_if_needed: the hashes are computed
\* whenever there is a lock manager, whatever has_waiter() answers.
gen_key_hashes_without_asking(lock_mgr, has_waiter, keys) ==
    IF lock_mgr THEN Some(HashesFrom(keys, 1)) ELSE None

\* if lm.has_waiter() { Some(hashes) } else { None }, for a lock manager.
gen_key_hashes_if_needed(lock_mgr, has_waiter, keys) ==
    IF lock_mgr /\ has_waiter THEN Some(HashesFrom(keys, 1)) ELSE None

\* A faulty variant of wake_up_waiters_if_needed: no call without key hashes.
wake_up_waiters_only_with_hashes(lock_mgr, lock_ts, key_hashes, commit_ts, is_pessimistic_txn) ==
    IF lock_mgr /\ key_hashes.some
        THEN <<[lock_ts |-> lock_ts, key_hashes |-> key_hashes, commit_ts |-> commit_ts,
                is_pessimistic_txn |-> is_pessimistic_txn]>>
    ELSE <<>>

\* The wake_up calls wake_up_waiters_if_needed makes: one when there is a lock
\* manager, none otherwise.
wake_up_waiters_if_needed(lock_mgr, lock_ts, key_hashes, commit_ts, is_pessimistic_txn) ==
    IF lock_mgr
        THEN <<[lock_ts |-> lock_ts, key_hashes |-> key_hashes, commit_ts |-> commit_ts,
                is_pessimistic_txn |-> is_pessimistic_txn]>>
    ELSE <<>>

\* A faulty variant of extract_lock_from_result: the raw key is hashed, not
\* the encoded key.
extract_lock_hashing_raw_key(res) ==
    IF res.kind = "KeyIsLocked"
        THEN [panic |-> FALSE, lock |-> Lock(res.lock_version, GenHash(res.key))]
    ELSE [panic |-> TRUE, lock |-> Lock(0, 0)]

\* extract_lock_from_result: the Lock of a KeyIsLocked result; panic |-> TRUE
\* stands for panic!("unexpected mvcc error").
extract_lock_from_result(res) ==
    IF res.kind = "KeyIsLocked"
        THEN [panic |-> FALSE, lock |-> Lock(res.lock_version, GenHash(FromRaw(res.key)))]
    ELSE [panic |-> TRUE, lock |-> Lock(0, 0)]

\* mutations.sort_by(|a, b| a.key().cmp(b.key())): a stable sort by key.
RECURSIVE InsertByKey(_, _)
InsertByKey(sorted, m) ==
    IF sorted = <<>> THEN <<m>>
    ELSE IF sorted[Len(sorted)].key <= m.key THEN Append(sorted, m)
    ELSE LetIn(SubSeq(sorted, 1, Len(sorted) - 1),
               LAMBDA front : Append(InsertByKey(front, m), sorted[Len(sorted)]))

RECURSIVE SortFrom(_, _, _)
SortFrom(muts, i, acc) ==
    IF i > Len(muts) THEN acc
    ELSE LetIn(InsertByKey(acc, muts[i]), LAMBDA a : SortFrom(muts, i + 1, a))

sort_by_key(mutations) == SortFrom(mutations, 1, <<>>)

(***************************************************************************)
(* process_write_impl, one operator per CommandKind arm.  lock_mgr says    *)
(* whether the lock manager is Some; has_waiter is what its has_waiter()   *)
(* answers when the arm asks.                                              *)
(***************************************************************************)
\* A faulty variant of prewrite_fast_path: the heuristic starts at
\* FORWARD_MIN_MUTATIONS_NUM mutations instead of above it.
prewrite_fast_path_from_threshold(cmd, snapshot) ==
    LET large == cmd.options.for_update_ts = 0
                 /\ Len(cmd.mutations) >= FORWARD_MIN_MUTATIONS_NUM
    IN  LetIn(IF large THEN sort_by_key(cmd.mutations) ELSE cmd.mutations, LAMBDA mutations :
        LetIn(large /\ ~has_data_in_range(snapshot, mutations[1].key,
                                          mutations[Len(mutations)].key, 0), LAMBDA no_data :
            [mutations |-> mutations,
             options |-> IF no_data THEN [cmd.options EXCEPT !.skip_constraint_check = TRUE]
                         ELSE cmd.options,
             scan_mode |-> IF no_data THEN "Forward" ELSE "None"]))

\* A faulty variant of prewrite_fast_path: the constraint check is skipped for
\* every large optimistic batch, whatever the write column family holds.
prewrite_fast_path_unchecked(cmd, snapshot) ==
    LET large == cmd.options.for_update_ts = 0
                 /\ Len(cmd.mutations) > FORWARD_MIN_MUTATIONS_NUM
    IN  [mutations |-> IF large THEN sort_by_key(cmd.mutations) ELSE cmd.mutations,
         options |-> IF large THEN [cmd.options EXCEPT !.skip_constraint_check = TRUE]
                     ELSE cmd.options,
         scan_mode |-> IF large THEN "Forward" ELSE "None"]

\* Prewrite, the fast-path heuristic: the mutations as processed, the options
\* as used, and the scan mode of the MVCC transaction.
prewrite_fast_path(cmd, snapshot) ==
    LET rows == Len(cmd.mutations)
        large == cmd.options.for_update_ts = 0 /\ rows > FORWARD_MIN_MUTATIONS_NUM
    IN  LetIn(IF large THEN sort_by_key(cmd.mutations) ELSE cmd.mutations, LAMBDA mutations :
        LetIn(large /\ ~has_data_in_range(snapshot, mutations[1].key,
                                          mutations[Len(mutations)].key, 0), LAMBDA no_data :
            [mutations |-> mutations,
             options |-> IF no_data THEN [cmd.options EXCEPT !.skip_constraint_check = TRUE]
                         ELSE cmd.options,
             scan_mode |-> IF no_data THEN "Forward" ELSE "None"]))

\* A faulty variant of prewrite_loop: the loop ends at the first KeyIsLocked,
\* as that of AcquirePessimisticLock does.
RECURSIVE prewrite_loop_breaking_at_first_lock(_, _, _, _, _, _)
prewrite_loop_breaking_at_first_lock(txn, mutations, i, primary, options, locks) ==
    IF i > Len(mutations)
        THEN [outcome |-> "Ok", err |-> NoErr, txn |-> txn, locks |-> locks]
    ELSE IF options.for_update_ts # 0 /\ i > Len(options.is_pessimistic_lock)
        THEN [outcome |-> "Panic", err |-> NoErr, txn |-> txn, locks |-> locks]
    ELSE
        LetIn(IF options.for_update_ts = 0
                  THEN prewrite(txn, mutations[i], primary, options)
              ELSE pessimistic_prewrite(txn, mutations[i], primary,
                                        options.is_pessimistic_lock[i], options),
              LAMBDA r :
                IF IsOk(r)
                    THEN prewrite_loop_breaking_at_first_lock(r.txn, mutations, i + 1,
                                                              primary, options, locks)
                ELSE IF r.err.kind = "KeyIsLocked"
                    THEN [outcome |-> "Ok", err |-> NoErr, txn |-> r.txn,
                          locks |-> Append(locks, r.err)]
                ELSE [outcome |-> "Err", err |-> r.err, txn |-> txn, locks |-> locks])

\* Prewrite, the loop over the mutations: KeyIsLocked is collected, any other
\* error ends the command; is_pessimistic_lock[i] out of range is a panic.
RECURSIVE prewrite_loop(_, _, _, _, _, _)
prewrite_loop(txn, mutations, i, primary, options, locks) ==
    IF i > Len(mutations)
        THEN [outcome |-> "Ok", err |-> NoErr, txn |-> txn, locks |-> locks]
    ELSE IF options.for_update_ts # 0 /\ i > Len(options.is_pessimistic_lock)
        THEN [outcome |-> "Panic", err |-> NoErr, txn |-> txn, locks |-> locks]
    ELSE
        LetIn(IF options.for_update_ts = 0
                  THEN prewrite(txn, mutations[i], primary, options)
              ELSE pessimistic_prewrite(txn, mutations[i], primary,
                                        options.is_pessimistic_lock[i], options),
              LAMBDA r :
                IF IsOk(r)
                    THEN prewrite_loop(r.txn, mutations, i + 1, primary, options, locks)
                ELSE IF r.err.kind = "KeyIsLocked"
                    THEN LetIn(Append(locks, r.err),
                               LAMBDA l : prewrite_loop(r.txn, mutations, i + 1, primary,
                                                        options, l))
                ELSE [outcome |-> "Err", err |-> r.err, txn |-> txn, locks |-> locks])

\* Prewrite, the result: the write stage is skipped if some keys are locked.
\* A faulty variant of prewrite_result: the locks and values of the mutations
\* that prewrote are written although other keys were found locked.
prewrite_result_writing_despite_locks(locks, txn, rows) ==
    WriteOk(PrMultiRes(locks), into_modifies(txn), rows, NoLockInfo, <<>>)

prewrite_result(locks, txn, rows) ==
    IF locks = <<>> THEN WriteOk(PrMultiRes(<<>>), into_modifies(txn), rows, NoLockInfo, <<>>)
    ELSE WriteOk(PrMultiRes(locks), <<>>, 0, NoLockInfo, <<>>)

write_prewrite(cmd, snapshot) ==
    LetIn(prewrite_fast_path(cmd, snapshot), LAMBDA fp :
    LetIn(prewrite_loop(MvccTxn(snapshot, cmd.start_ts), fp.mutations, 1,
                        cmd.primary, fp.options, <<>>), LAMBDA r :
        IF r.outcome = "Panic" THEN WritePanic(<<>>)
        ELSE IF r.outcome = "Err" THEN WriteErr(r.err, <<>>)
        ELSE prewrite_result(r.locks, r.txn, Len(cmd.mutations))))

\* A faulty variant of constraint_check_seeks: the write column family is
\* sought for every key although the constraint check is skipped.
constraint_check_seeks_always(options) == 1

\* The seeks on the write column family of one MvccTxn::prewrite call: the
\* seek_write of the constraint check, none when the check is skipped.
constraint_check_seeks(options) == IF options.skip_constraint_check THEN 0 ELSE 1

\* Prewrite, statistics.write.seek on return: the seek of has_data_in_range,
\* made on statistics.write itself, and the seeks of the MVCC transaction,
\* which statistics.add takes over after the loop; an error returns before.
prewrite_write_seeks(cmd, snapshot) ==
    LetIn(prewrite_fast_path(cmd, snapshot), LAMBDA fp :
    LetIn(prewrite_loop(MvccTxn(snapshot, cmd.start_ts), fp.mutations, 1,
                        cmd.primary, fp.options, <<>>), LAMBDA r :
        (IF cmd.options.for_update_ts = 0 /\ Len(cmd.mutations) > FORWARD_MIN_MUTATIONS_NUM
             THEN 1 ELSE 0)
        + (IF r.outcome = "Ok" /\ cmd.options.for_update_ts = 0
               THEN Len(fp.mutations) * constraint_check_seeks(fp.options)
           ELSE 0)))

\* A faulty variant of acquire_loop: it goes on after a KeyIsLocked, as
\* Prewrite does, and collects the conflict of every locked key.
RECURSIVE acquire_loop_collecting_every_lock(_, _, _, _, _)
acquire_loop_collecting_every_lock(txn, keys, i, primary, options) ==
    IF i > Len(keys) THEN [outcome |-> "Ok", err |-> NoErr, txn |-> txn, locks |-> <<>>]
    ELSE
        LetIn(acquire_pessimistic_lock(txn, keys[i][1], primary, keys[i][2], options),
              LAMBDA r :
        LetIn(acquire_loop_collecting_every_lock(r.txn, keys, i + 1, primary, options),
              LAMBDA rest :
                IF IsOk(r) \/ rest.outcome = "Err" THEN rest
                ELSE IF r.err.kind = "KeyIsLocked"
                    THEN [rest EXCEPT !.locks = <<r.err>> \o rest.locks]
                ELSE [outcome |-> "Err", err |-> r.err, txn |-> txn, locks |-> <<>>]))

\* AcquirePessimisticLock: the loop breaks at the first KeyIsLocked.
RECURSIVE acquire_loop(_, _, _, _, _)
acquire_loop(txn, keys, i, primary, options) ==
    IF i > Len(keys) THEN [outcome |-> "Ok", err |-> NoErr, txn |-> txn, locks |-> <<>>]
    ELSE
        LetIn(acquire_pessimistic_lock(txn, keys[i][1], primary, keys[i][2], options),
              LAMBDA r :
                IF IsOk(r) THEN acquire_loop(r.txn, keys, i + 1, primary, options)
                ELSE IF r.err.kind = "KeyIsLocked"
                    THEN [outcome |-> "Ok", err |-> NoErr, txn |-> r.txn,
                          locks |-> <<r.err>>]
                ELSE [outcome |-> "Err", err |-> r.err, txn |-> txn, locks |-> <<>>])

write_acquire_pessimistic_lock(cmd, snapshot) ==
    LET r == acquire_loop(MvccTxn(snapshot, cmd.start_ts), cmd.keys, 1, cmd.primary,
                          cmd.options)
        x == extract_lock_from_result(r.locks[1])
    IN  IF r.outcome = "Err" THEN WriteErr(r.err, <<>>)
        ELSE IF r.locks = <<>>
            THEN WriteOk(PrMultiRes(<<>>), into_modifies(r.txn), Len(cmd.keys),
                         NoLockInfo, <<>>)
        ELSE IF x.panic THEN WritePanic(<<>>)
        ELSE WriteOk(PrMultiRes(r.locks), <<>>, 0,
                     [some |-> TRUE, lock |-> x.lock,
                      is_first_lock |-> cmd.options.is_first_lock,
                      wait_timeout |-> cmd.options.wait_timeout],
                     <<>>)

\* A faulty variant of commit_loop: a key that fails to commit is passed over
\* and the keys that committed are written.
RECURSIVE commit_loop_passing_over_failed_keys(_, _, _, _, _)
commit_loop_passing_over_failed_keys(txn, keys, i, commit_ts, is_pessimistic_txn) ==
    IF i > Len(keys) THEN TxnOk(txn, is_pessimistic_txn)
    ELSE
        LetIn(commit(txn, keys[i], commit_ts),
              LAMBDA r : commit_loop_passing_over_failed_keys(
                             r.txn, keys, i + 1, commit_ts,
                             IF IsOk(r) THEN r.val ELSE is_pessimistic_txn))

\* A faulty variant of commit_loop: is_pessimistic_txn is true as soon as one
\* key's lock was pessimistic.
RECURSIVE commit_loop_combining_flags(_, _, _, _, _)
commit_loop_combining_flags(txn, keys, i, commit_ts, is_pessimistic_txn) ==
    IF i > Len(keys) THEN TxnOk(txn, is_pessimistic_txn)
    ELSE
        LetIn(commit(txn, keys[i], commit_ts),
              LAMBDA r : IF IsOk(r)
                             THEN commit_loop_combining_flags(r.txn, keys, i + 1, commit_ts,
                                                              is_pessimistic_txn \/ r.val)
                         ELSE r)

\* for k in keys { is_pessimistic_txn = txn.commit(k, commit_ts)?; }
RECURSIVE commit_loop(_, _, _, _, _)
commit_loop(txn, keys, i, commit_ts, is_pessimistic_txn) ==
    IF i > Len(keys) THEN TxnOk(txn, is_pessimistic_txn)
    ELSE
        LetIn(commit(txn, keys[i], commit_ts),
              LAMBDA r : IF IsOk(r) THEN commit_loop(r.txn, keys, i + 1, commit_ts, r.val)
                         ELSE r)

\* Commit, the precondition on the timestamps.
\* A faulty variant of commit_ts_is_invalid: commit_ts = lock_ts is let through.
commit_ts_is_invalid_only_below(lock_ts, commit_ts) == commit_ts < lock_ts

commit_ts_is_invalid(lock_ts, commit_ts) == commit_ts <= lock_ts

\* A faulty variant of write_commit: the waiters are woken for the keys
\* committed so far when a later key fails.
write_commit_waking_despite_error(cmd, snapshot, lock_mgr, has_waiter) ==
    IF commit_ts_is_invalid(cmd.lock_ts, cmd.commit_ts)
        THEN WriteErr(InvalidTxnTso(cmd.lock_ts, cmd.commit_ts), <<>>)
    ELSE
        LET key_hashes == gen_key_hashes_if_needed(lock_mgr, has_waiter, cmd.keys)
            r == commit_loop(MvccTxn(snapshot, cmd.lock_ts), cmd.keys, 1, cmd.commit_ts, FALSE)
        IN  IF ~IsOk(r)
                THEN WriteErr(r.err, wake_up_waiters_if_needed(lock_mgr, cmd.lock_ts,
                                                               key_hashes, cmd.commit_ts,
                                                               r.val))
            ELSE WriteOk(PrTxnStatus(TxnStatus("Committed", 0, cmd.commit_ts)),
                         into_modifies(r.txn), Len(cmd.keys), NoLockInfo,
                         wake_up_waiters_if_needed(lock_mgr, cmd.lock_ts, key_hashes,
                                                   cmd.commit_ts, r.val))

write_commit(cmd, snapshot, lock_mgr, has_waiter) ==
    IF commit_ts_is_invalid(cmd.lock_ts, cmd.commit_ts)
        THEN WriteErr(InvalidTxnTso(cmd.lock_ts, cmd.commit_ts), <<>>)
    ELSE
        LET key_hashes == gen_key_hashes_if_needed(lock_mgr, has_waiter, cmd.keys)
            r == commit_loop(MvccTxn(snapshot, cmd.lock_ts), cmd.keys, 1, cmd.commit_ts, FALSE)
        IN  IF ~IsOk(r) THEN WriteErr(r.err, <<>>)
            ELSE WriteOk(PrTxnStatus(TxnStatus("Committed", 0, cmd.commit_ts)),
                         into_modifies(r.txn), Len(cmd.keys), NoLockInfo,
                         wake_up_waiters_if_needed(lock_mgr, cmd.lock_ts, key_hashes,
                                                   cmd.commit_ts, r.val))

write_cleanup(cmd, snapshot, lock_mgr, has_waiter) ==
    LET key_hashes == gen_key_hashes_if_needed(lock_mgr, has_waiter, <<cmd.key>>)
        r == cleanup(MvccTxn(snapshot, cmd.start_ts), cmd.key, cmd.current_ts)
    IN  IF ~IsOk(r) THEN WriteErr(r.err, <<>>)
        ELSE WriteOk(PrRes, into_modifies(r.txn), 1, NoLockInfo,
                     wake_up_waiters_if_needed(lock_mgr, cmd.start_ts, key_hashes, 0, r.val))

\* for k in keys { is_pessimistic_txn = txn.rollback(k)?; }
RECURSIVE rollback_loop(_, _, _, _)
rollback_loop(txn, keys, i, is_pessimistic_txn) ==
    IF i > Len(keys) THEN TxnOk(txn, is_pessimistic_txn)
    ELSE
        LetIn(rollback(txn, keys[i]),
              LAMBDA r : IF IsOk(r) THEN rollback_loop(r.txn, keys, i + 1, r.val) ELSE r)

\* A faulty variant of write_rollback: the wake-up carries the transaction's
\* start_ts where the commit_ts goes, as if the lock had been committed.
write_rollback_waking_with_start_ts(cmd, snapshot, lock_mgr, has_waiter) ==
    LET key_hashes == gen_key_hashes_if_needed(lock_mgr, has_waiter, cmd.keys)
        r == rollback_loop(MvccTxn(snapshot, cmd.start_ts), cmd.keys, 1, FALSE)
    IN  IF ~IsOk(r) THEN WriteErr(r.err, <<>>)
        ELSE WriteOk(PrRes, into_modifies(r.txn), Len(cmd.keys), NoLockInfo,
                     wake_up_waiters_if_needed(lock_mgr, cmd.start_ts, key_hashes,
                                               cmd.start_ts, r.val))

write_rollback(cmd, snapshot, lock_mgr, has_waiter) ==
    LET key_hashes == gen_key_hashes_if_needed(lock_mgr, has_waiter, cmd.keys)
        r == rollback_loop(MvccTxn(snapshot, cmd.start_ts), cmd.keys, 1, FALSE)
    IN  IF ~IsOk(r) THEN WriteErr(r.err, <<>>)
        ELSE WriteOk(PrRes, into_modifies(r.txn), Len(cmd.keys), NoLockInfo,
                     wake_up_waiters_if_needed(lock_mgr, cmd.start_ts, key_hashes, 0, r.val))

\* for k in keys { txn.pessimistic_rollback(k, for_update_ts)?; }
RECURSIVE pessimistic_rollback_loop(_, _, _, _)
pessimistic_rollback_loop(txn, keys, i, for_update_ts) ==
    IF i > Len(keys) THEN TxnOk(txn, TRUE)
    ELSE
        LetIn(pessimistic_rollback(txn, keys[i], for_update_ts),
              LAMBDA r : IF IsOk(r)
                             THEN pessimistic_rollback_loop(r.txn, keys, i + 1, for_update_ts)
                         ELSE r)

\* PessimisticRollback: assert!(lock_mgr.is_some()) comes first.
write_pessimistic_rollback(cmd, snapshot, lock_mgr, has_waiter) ==
    IF ~lock_mgr THEN WritePanic(<<>>)
    ELSE
        LET key_hashes == gen_key_hashes_if_needed(lock_mgr, has_waiter, cmd.keys)
            r == pessimistic_rollback_loop(MvccTxn(snapshot, cmd.start_ts), cmd.keys, 1,
                                           cmd.for_update_ts)
        IN  IF ~IsOk(r) THEN WriteErr(r.err, <<>>)
            ELSE WriteOk(PrMultiRes(<<>>), into_modifies(r.txn), Len(cmd.keys), NoLockInfo,
                         wake_up_waiters_if_needed(lock_mgr, cmd.start_ts, key_hashes, 0, TRUE))

\* A faulty variant of txn_to_keys_entry: the map is keyed by lock.ts alone, so
\* the optimistic and the pessimistic locks of a transaction share a bucket.
txn_to_keys_entry_by_ts_only(txn_to_keys, has_waiter, key, lock) ==
    LET at == {j \in DOMAIN txn_to_keys : txn_to_keys[j].ts = lock.ts}
    IN  IF at # {} THEN
            [j \in DOMAIN txn_to_keys |->
                IF j \in at /\ txn_to_keys[j].key_hashes.some
                    THEN [txn_to_keys[j] EXCEPT
                              !.key_hashes = Some(Append(@.v, GenHash(key)))]
                ELSE txn_to_keys[j]]
        ELSE Append(txn_to_keys,
                    [ts |-> lock.ts, is_pessimistic_txn |-> lock.for_update_ts # 0,
                     key_hashes |-> IF has_waiter THEN Some(<<GenHash(key)>>) ELSE None])

\* ResolveLock, the map (lock.ts, is_pessimistic_txn) => Option<key_hashes>, kept
\* as the sequence of its entries in the order they were inserted.
txn_to_keys_entry(txn_to_keys, has_waiter, key, lock) ==
    LET pess == lock.for_update_ts # 0
        at == {j \in DOMAIN txn_to_keys :
                  txn_to_keys[j].ts = lock.ts /\ txn_to_keys[j].is_pessimistic_txn = pess}
    IN  IF at # {} THEN
            [j \in DOMAIN txn_to_keys |->
                IF j \in at /\ txn_to_keys[j].key_hashes.some
                    THEN [txn_to_keys[j] EXCEPT
                              !.key_hashes = Some(Append(@.v, GenHash(key)))]
                ELSE txn_to_keys[j]]
        ELSE Append(txn_to_keys,
                    [ts |-> lock.ts, is_pessimistic_txn |-> pess,
                     key_hashes |-> IF has_waiter THEN Some(<<GenHash(key)>>) ELSE None])

\* A faulty variant of resolve_one: the lock is resolved by the largest
\* commit_ts of txn_status, not by the status of its own transaction.
resolve_one_by_largest_status(snapshot, txn_status, current_key, current_lock) ==
    LET txn == MvccTxn(snapshot, current_lock.ts)
        commit_ts == CHOOSE c \in Range(txn_status) : \A d \in Range(txn_status) : d <= c
    IN  IF commit_ts # 0 THEN
            IF current_lock.ts >= commit_ts
                THEN TxnErr(txn, InvalidTxnTso(current_lock.ts, commit_ts))
            ELSE commit(txn, current_key, commit_ts)
        ELSE rollback(txn, current_key)

\* ResolveLock, committing or rolling back one (key, lock) as txn_status says.
resolve_one(snapshot, txn_status, current_key, current_lock) ==
    LET txn == MvccTxn(snapshot, current_lock.ts)
        commit_ts == txn_status[current_lock.ts]
    IN  IF commit_ts # 0 THEN
            IF current_lock.ts >= commit_ts
                THEN TxnErr(txn, InvalidTxnTso(current_lock.ts, commit_ts))
            ELSE commit(txn, current_key, commit_ts)
        ELSE rollback(txn, current_key)

\* A faulty variant of write_size_reached: the round goes on past the limit.
write_size_reached_late(size) == size >= MAX_TXN_WRITE_SIZE + 4

\* ResolveLock, the test that ends a round.
write_size_reached(size) == size >= MAX_TXN_WRITE_SIZE

\* A faulty variant of resolve_loop: the round stops on its first key before
\* resolving it, remembering that key as the scan_key.
resolve_loop_stopping_before_first_key(snapshot, txn_status, key_locks, i, lock_mgr, has_waiter, txn_to_keys, modifies, size, scan_key) ==
    [outcome |-> "Ok", err |-> NoErr, txn_to_keys |-> txn_to_keys, modifies |-> modifies,
     scan_key |-> IF i > Len(key_locks) THEN scan_key ELSE key_locks[i][1]]

\* ResolveLock, the loop over key_locks.
RECURSIVE resolve_loop(_, _, _, _, _, _, _, _, _, _)
resolve_loop(snapshot, txn_status, key_locks, i, lock_mgr, has_waiter, txn_to_keys, modifies, size, scan_key) ==
    IF i > Len(key_locks)
        THEN [outcome |-> "Ok", err |-> NoErr, txn_to_keys |-> txn_to_keys,
              modifies |-> modifies, scan_key |-> scan_key]
    ELSE
        LET current_key == key_locks[i][1]
            current_lock == key_locks[i][2]
        IN  LetIn(IF lock_mgr
                      THEN txn_to_keys_entry(txn_to_keys, has_waiter, current_key,
                                             current_lock)
                  ELSE txn_to_keys,
                  LAMBDA buckets :
            IF current_lock.ts \notin DOMAIN txn_status
                THEN [outcome |-> "Panic", err |-> NoErr, txn_to_keys |-> buckets,
                      modifies |-> modifies, scan_key |-> scan_key]
            ELSE
            LetIn(resolve_one(snapshot, txn_status, current_key, current_lock),
                  LAMBDA r :
            IF ~IsOk(r)
                THEN [outcome |-> "Err", err |-> r.err, txn_to_keys |-> buckets,
                      modifies |-> modifies, scan_key |-> scan_key]
            ELSE
            LetIn(<<size + write_size(r.txn), modifies \o into_modifies(r.txn)>>,
                  LAMBDA acc :
            IF write_size_reached(acc[1])
                THEN [outcome |-> "Ok", err |-> NoErr, txn_to_keys |-> buckets,
                      modifies |-> acc[2], scan_key |-> current_key]
            ELSE resolve_loop(snapshot, txn_status, key_locks, i + 1, lock_mgr, has_waiter,
                              buckets, acc[2], acc[1], scan_key))))

\* ResolveLock, waking every bucket of the map.
RECURSIVE wake_buckets(_, _, _)
wake_buckets(lock_mgr, txn_to_keys, j) ==
    IF j > Len(txn_to_keys) THEN <<>>
    ELSE wake_up_waiters_if_needed(lock_mgr, txn_to_keys[j].ts, txn_to_keys[j].key_hashes,
                                   0, txn_to_keys[j].is_pessimistic_txn)
         \o wake_buckets(lock_mgr, txn_to_keys, j + 1)

\* A faulty variant of resolve_result: the next round starts at the scan_key
\* the read phase gave, not at the key the loop stopped on.
resolve_result_from_read_scan_key(cmd, scan_key) ==
    IF cmd.scan_key = 0 THEN PrRes
    ELSE PrNextCommand(CmdResolveLock(cmd.txn_status, cmd.scan_key, <<>>))

\* ResolveLock, the result: Res when scan_key is none, else the next round.
resolve_result(cmd, scan_key) ==
    IF scan_key = 0 THEN PrRes
    ELSE PrNextCommand(CmdResolveLock(cmd.txn_status, scan_key, <<>>))

write_resolve_lock(cmd, snapshot, lock_mgr, has_waiter) ==
    LET r == resolve_loop(snapshot, cmd.txn_status, cmd.key_locks, 1, lock_mgr,
                          lock_mgr /\ has_waiter, <<>>, <<>>, 0, cmd.scan_key)
    IN  IF r.outcome = "Panic" THEN WritePanic(<<>>)
        ELSE IF r.outcome = "Err" THEN WriteErr(r.err, <<>>)
        ELSE WriteOk(resolve_result(cmd, r.scan_key), r.modifies, Len(cmd.key_locks),
                     NoLockInfo, wake_buckets(lock_mgr, r.txn_to_keys, 1))

\* ResolveLockLite, the loop: commit every key when commit_ts is not zero, roll
\* every key back when it is.
RECURSIVE resolve_lite_loop(_, _, _, _, _)
resolve_lite_loop(txn, keys, i, commit_ts, is_pessimistic_txn) ==
    IF i > Len(keys) THEN TxnOk(txn, is_pessimistic_txn)
    ELSE
        LetIn(IF commit_ts # 0 THEN commit(txn, keys[i], commit_ts)
              ELSE rollback(txn, keys[i]),
              LAMBDA r : IF IsOk(r)
                             THEN resolve_lite_loop(r.txn, keys, i + 1, commit_ts, r.val)
                         ELSE r)

write_resolve_lock_lite(cmd, snapshot, lock_mgr, has_waiter) ==
    LET key_hashes == gen_key_hashes_if_needed(lock_mgr, has_waiter, cmd.resolve_keys)
        r == resolve_lite_loop(MvccTxn(snapshot, cmd.start_ts), cmd.resolve_keys, 1,
                               cmd.commit_ts, FALSE)
    IN  IF ~IsOk(r) THEN WriteErr(r.err, <<>>)
        ELSE WriteOk(PrRes, into_modifies(r.txn), Len(cmd.resolve_keys), NoLockInfo,
                     wake_up_waiters_if_needed(lock_mgr, cmd.start_ts, key_hashes,
                                               cmd.commit_ts, r.val))

write_txn_heart_beat(cmd, snapshot) ==
    LET r == txn_heart_beat(MvccTxn(snapshot, cmd.start_ts), cmd.primary_key, cmd.advise_ttl)
    IN  IF ~IsOk(r) THEN WriteErr(r.err, <<>>)
        ELSE WriteOk(PrTxnStatus(TxnStatus("Uncommitted", r.val, 0)), into_modifies(r.txn),
                     1, NoLockInfo, <<>>)

\* A faulty variant of write_check_txn_status: waiters are woken whatever
\* status check_txn_status returned.
write_check_txn_status_waking_always(cmd, snapshot, lock_mgr, has_waiter) ==
    LET r == check_txn_status(MvccTxn(snapshot, cmd.lock_ts), cmd.primary_key,
                              cmd.caller_start_ts, cmd.current_ts,
                              cmd.rollback_if_not_exist)
    IN  IF ~IsOk(r) THEN WriteErr(r.err, <<>>)
        ELSE WriteOk(PrTxnStatus(r.val[1]), into_modifies(r.txn), 1, NoLockInfo,
                     wake_up_waiters_if_needed(
                         lock_mgr, cmd.lock_ts,
                         gen_key_hashes_if_needed(lock_mgr, has_waiter,
                                                  <<cmd.primary_key>>),
                         0, r.val[2]))

write_check_txn_status(cmd, snapshot, lock_mgr, has_waiter) ==
    LET r == check_txn_status(MvccTxn(snapshot, cmd.lock_ts), cmd.primary_key,
                              cmd.caller_start_ts, cmd.current_ts,
                              cmd.rollback_if_not_exist)
        txn_status == r.val[1]
        is_pessimistic_txn == r.val[2]
    IN  IF ~IsOk(r) THEN WriteErr(r.err, <<>>)
        ELSE WriteOk(PrTxnStatus(txn_status), into_modifies(r.txn), 1, NoLockInfo,
                     IF txn_status.kind \in {"TtlExpire", "LockNotExist"}
                         THEN wake_up_waiters_if_needed(
                                  lock_mgr, cmd.lock_ts,
                                  gen_key_hashes_if_needed(lock_mgr, has_waiter,
                                                           <<cmd.primary_key>>),
                                  0, is_pessimistic_txn)
                     ELSE <<>>)

write_pause(cmd) == WriteOk(PrRes, <<>>, 0, NoLockInfo, <<>>)

process_write_impl(cmd, snapshot, lock_mgr, has_waiter) ==
    CASE cmd.kind = "Prewrite" -> write_prewrite(cmd, snapshot)
      [] cmd.kind = "AcquirePessimisticLock" -> write_acquire_pessimistic_lock(cmd, snapshot)
      [] cmd.kind = "Commit" -> write_commit(cmd, snapshot, lock_mgr, has_waiter)
      [] cmd.kind = "Cleanup" -> write_cleanup(cmd, snapshot, lock_mgr, has_waiter)
      [] cmd.kind = "Rollback" -> write_rollback(cmd, snapshot, lock_mgr, has_waiter)
      [] cmd.kind = "PessimisticRollback" ->
            write_pessimistic_rollback(cmd, snapshot, lock_mgr, has_waiter)
      [] cmd.kind = "ResolveLock" -> write_resolve_lock(cmd, snapshot, lock_mgr, has_waiter)
      [] cmd.kind = "ResolveLockLite" ->
            write_resolve_lock_lite(cmd, snapshot, lock_mgr, has_waiter)
      [] cmd.kind = "TxnHeartBeat" -> write_txn_heart_beat(cmd, snapshot)
      [] cmd.kind = "CheckTxnStatus" ->
            write_check_txn_status(cmd, snapshot, lock_mgr, has_waiter)
      [] cmd.kind = "Pause" -> write_pause(cmd)
      [] OTHER -> WritePanic(<<>>)

(***************************************************************************)
(* The read processor.                                                     *)
(***************************************************************************)
\* find_mvcc_infos_by_key, the loop: seek_write at ts, then at commit_ts.prev().
RECURSIVE writes_from(_, _, _)
writes_from(snap, key, ts) ==
    LetIn(seek_write(snap, key, ts),
          LAMBDA w : IF w.type = "None" THEN <<>>
                     ELSE <<<<w.commit_ts, w>>>> \o writes_from(snap, key, w.commit_ts - 1))

\* MvccReader::scan_values_in_default: the values of key, newest first.
RECURSIVE values_from(_, _, _)
values_from(snap, key, ts) ==
    IF ts < 0 THEN <<>>
    ELSE (IF ts \in snap.defaults[key] THEN <<ts>> ELSE <<>>) \o values_from(snap, key, ts - 1)

scan_values_in_default(snap, key) == values_from(snap, key, MaxTs)

\* A faulty variant of find_mvcc_infos_loop: after a record the loop goes on
\* two timestamps below its commit_ts.
find_mvcc_infos_loop_stepping_twice(snap, key, st) ==
    LetIn(seek_write(snap, key, st.ts),
          LAMBDA w : IF w.type = "None" THEN [st EXCEPT !.pc = "scan"]
                     ELSE [st EXCEPT !.ts = w.commit_ts - 2,
                                     !.writes = Append(@, <<w.commit_ts, w>>)])

\* find_mvcc_infos_by_key, one turn of the loop on the loop's state st: the
\* seek_write at st.ts, then the push and ts = commit_ts.prev(), or the break.
find_mvcc_infos_loop(snap, key, st) ==
    LetIn(seek_write(snap, key, st.ts),
          LAMBDA w : IF w.type = "None" THEN [st EXCEPT !.pc = "scan"]
                     ELSE [st EXCEPT !.ts = w.commit_ts - 1,
                                     !.writes = Append(@, <<w.commit_ts, w>>)])

\* A faulty variant of find_mvcc_infos_by_key: the first seek_write starts two
\* timestamps below ts.
find_mvcc_infos_by_key_seeking_low(snap, key, ts) ==
    [lock |-> load_lock(snap, key),
     writes |-> writes_from(snap, key, ts - 2),
     values |-> scan_values_in_default(snap, key)]

find_mvcc_infos_by_key(snap, key, ts) ==
    [lock |-> load_lock(snap, key),
     writes |-> writes_from(snap, key, ts),
     values |-> scan_values_in_default(snap, key)]

\* MvccReader::seek_ts: the first key holding a lock or a write record of ts; 0 is None.
seek_ts(snap, ts) ==
    LET hit == {k \in Keys : \/ load_lock(snap, k).type # "None" /\ load_lock(snap, k).ts = ts
                             \/ \E w \in snap.writes[k] : w.start_ts = ts}
    IN  IF hit = {} THEN 0 ELSE CHOOSE k \in hit : \A j \in hit : k <= j

\* ScanLock: one LockInfo per scanned lock.
RECURSIVE lock_infos(_, _)
lock_infos(kv_pairs, i) ==
    IF i > Len(kv_pairs) THEN <<>>
    ELSE <<[primary_lock |-> kv_pairs[i][2].primary, lock_version |-> kv_pairs[i][2].ts,
            key |-> IntoRaw(kv_pairs[i][1]), lock_ttl |-> kv_pairs[i][2].ttl]>>
         \o lock_infos(kv_pairs, i + 1)

\* A faulty variant of read_resolve_lock: the last key scanned is remembered
\* as the next scan_key whether or not the scan was cut short.
read_resolve_lock_always_remembering_last_key(cmd, snapshot) ==
    LET result == scan_locks(snapshot, cmd.scan_key,
                             DOMAIN cmd.txn_status,
                             RESOLVE_LOCK_BATCH_SIZE)
        kv_pairs == result[1]
    IN  IF kv_pairs = <<>> THEN PrRes
        ELSE PrNextCommand(CmdResolveLock(cmd.txn_status, kv_pairs[Len(kv_pairs)][1],
                                          kv_pairs))

\* ResolveLock (read phase): the scan, and the command of the write phase.
read_resolve_lock(cmd, snapshot) ==
    LET result == scan_locks(snapshot, cmd.scan_key,
                             DOMAIN cmd.txn_status,
                             RESOLVE_LOCK_BATCH_SIZE)
        kv_pairs == result[1]
        has_remain == result[2]
        next_scan_key == IF has_remain THEN kv_pairs[Len(kv_pairs)][1] ELSE 0
    IN  IF kv_pairs = <<>> THEN PrRes
        ELSE PrNextCommand(CmdResolveLock(cmd.txn_status, next_scan_key, kv_pairs))

\* process_read_impl: Ok(ProcessResult), or a panic on any other kind.
process_read_impl(cmd, snapshot) ==
    CASE cmd.kind = "MvccByKey" ->
            [outcome |-> "Ok",
             pr |-> PrMvccKey(find_mvcc_infos_by_key(snapshot, cmd.key, TsMax))]
      [] cmd.kind = "MvccByStartTs" ->
            LET key == seek_ts(snapshot, cmd.start_ts)
            IN  [outcome |-> "Ok",
                 pr |-> IF key = 0 THEN PrMvccStartTs(FALSE, 0, <<>>)
                        ELSE PrMvccStartTs(TRUE, key,
                                           find_mvcc_infos_by_key(snapshot, key, TsMax))]
      [] cmd.kind = "ScanLock" ->
            [outcome |-> "Ok",
             pr |-> PrLocks(lock_infos(scan_locks(snapshot, cmd.start_key,
                                                  0..cmd.max_ts,
                                                  cmd.limit)[1], 1))]
      [] cmd.kind = "ResolveLock" ->
            [outcome |-> "Ok", pr |-> read_resolve_lock(cmd, snapshot)]
      [] OTHER -> [outcome |-> "Panic", pr |-> PrRes]

(***************************************************************************)
(* Messages to the scheduler (scheduler::Msg).                             *)
(***************************************************************************)
MsgReadFinished(cid, pr, tag) == [type |-> "ReadFinished", cid |-> cid, pr |-> pr, tag |-> tag]

MsgWriteFinished(cid, pr, result, tag) ==
    [type |-> "WriteFinished", cid |-> cid, pr |-> pr, result |-> result, tag |-> tag]

MsgFinishedWithErr(cid, err, tag) ==
    [type |-> "FinishedWithErr", cid |-> cid, err |-> err, tag |-> tag]

MsgWaitForLock(cid, start_ts, pr, lock, is_first_lock, wait_timeout) ==
    [type |-> "WaitForLock", cid |-> cid, start_ts |-> start_ts, pr |-> pr, lock |-> lock,
     is_first_lock |-> is_first_lock, wait_timeout |-> wait_timeout]

\* The errors of the engine: what a failed snapshot or a rejected async_write
\* carries.  Error::from wraps the engine's error; the error wrapped is what a
\* message is modelled to carry.
EngineErr(kind) == [NoErr EXCEPT !.kind = kind]

EngineErrs == {EngineErr("EngineRequest"), EngineErr("EngineTimeout")}

\* EngineResult<E::Snap>, the snapshot handed to execute or the error of taking it.
SnapOk(snap) == [ok |-> TRUE, snap |-> snap, err |-> NoErr]

SnapErr(err) == [ok |-> FALSE, snap |-> EmptyDb, err |-> err]

(***************************************************************************)
(* Executor.  task[cid].pc says which job of the command is outstanding:   *)
(*   "new"       not handed to execute yet                                 *)
(*   "err_job"   execute spawned the job that reports the snapshot error   *)
(*   "proc_job"  process_by_worker spawned the job that runs the processor *)
(*   "engine"    async_write accepted the batch and holds engine_cb        *)
(*   "cb_job"    engine_cb spawned the job that posts WriteFinished        *)
(*   "done"      every job of the command has run                          *)
(*   "panicked"  the processor panicked in the job                         *)
(***************************************************************************)
NewTask == [pc |-> "new", cmd |-> CmdPause(0), snapshot |-> EmptyDb,
            snapshot_err |-> NoErr, outcome |-> "None",
            pr |-> PrRes, to_be_write |-> <<>>, rows |-> 0, lock_info |-> NoLockInfo,
            has_waiter |-> FALSE, async_write_err |-> NoErr, result |-> "None"]

\* A faulty variant of execute: the processor job is spawned although the
\* snapshot could not be taken.
execute_processing_despite_error(snapshot, cmd) ==
    [NewTask EXCEPT !.pc = "proc_job",
                    !.cmd = cmd,
                    !.snapshot = snapshot.snap,
                    !.snapshot_err = snapshot.err]

\* Task::new and Executor::execute with process_by_worker: the job spawned for
\* the command.
execute(snapshot, cmd) ==
    [NewTask EXCEPT !.pc = IF snapshot.ok THEN "proc_job" ELSE "err_job",
                    !.cmd = cmd,
                    !.snapshot = snapshot.snap,
                    !.snapshot_err = snapshot.err]

\* Executor::process_read: what it posts; a panic of the processor posts nothing.
process_read(cid, cmd, snapshot) ==
    LET r == process_read_impl(cmd, snapshot)
    IN  [outcome |-> r.outcome, pr |-> r.pr,
         posts |-> IF r.outcome = "Panic" THEN <<>>
                   ELSE <<MsgReadFinished(cid, r.pr, cmd.kind)>>]

\* A faulty variant of process_write_msg: it reports WriteFinished on return
\* although the engine took the callback, which reports it as well.
process_write_msg_reporting_twice(cid, cmd, w, async_write_err) ==
    IF w.outcome = "Panic"
        THEN [posts |-> <<>>, submitted |-> FALSE, pending |-> FALSE]
    ELSE IF w.outcome = "Err"
        THEN [posts |-> <<MsgFinishedWithErr(cid, w.err, cmd.kind)>>,
              submitted |-> FALSE, pending |-> FALSE]
    ELSE IF w.lock_info.some
        THEN [posts |-> <<MsgWaitForLock(cid, CmdTs(cmd), w.pr, w.lock_info.lock,
                                         w.lock_info.is_first_lock,
                                         w.lock_info.wait_timeout)>>,
              submitted |-> FALSE, pending |-> FALSE]
    ELSE IF w.to_be_write = <<>>
        THEN [posts |-> <<MsgWriteFinished(cid, w.pr, "Ok", cmd.kind)>>,
              submitted |-> FALSE, pending |-> FALSE]
    ELSE IF async_write_err # NoErr
        THEN [posts |-> <<MsgFinishedWithErr(cid, async_write_err, cmd.kind)>>,
              submitted |-> TRUE, pending |-> FALSE]
    ELSE [posts |-> <<MsgWriteFinished(cid, w.pr, "Ok", cmd.kind)>>,
          submitted |-> TRUE, pending |-> TRUE]

\* A faulty variant of process_write_msg: an empty batch is handed to the
\* engine like any other instead of being reported at once.
process_write_msg_writing_empty_batch(cid, cmd, w, async_write_err) ==
    IF w.outcome = "Panic"
        THEN [posts |-> <<>>, submitted |-> FALSE, pending |-> FALSE]
    ELSE IF w.outcome = "Err"
        THEN [posts |-> <<MsgFinishedWithErr(cid, w.err, cmd.kind)>>,
              submitted |-> FALSE, pending |-> FALSE]
    ELSE IF w.lock_info.some
        THEN [posts |-> <<MsgWaitForLock(cid, CmdTs(cmd), w.pr, w.lock_info.lock,
                                         w.lock_info.is_first_lock,
                                         w.lock_info.wait_timeout)>>,
              submitted |-> FALSE, pending |-> FALSE]
    ELSE IF async_write_err # NoErr
        THEN [posts |-> <<MsgFinishedWithErr(cid, async_write_err, cmd.kind)>>,
              submitted |-> TRUE, pending |-> FALSE]
    ELSE [posts |-> <<>>, submitted |-> TRUE, pending |-> TRUE]

\* A faulty variant of process_write_msg: a batch the engine rejects on the
\* call is dropped without a message.
process_write_msg_silent_reject(cid, cmd, w, async_write_err) ==
    IF w.outcome = "Panic"
        THEN [posts |-> <<>>, submitted |-> FALSE, pending |-> FALSE]
    ELSE IF w.outcome = "Err"
        THEN [posts |-> <<MsgFinishedWithErr(cid, w.err, cmd.kind)>>,
              submitted |-> FALSE, pending |-> FALSE]
    ELSE IF w.lock_info.some
        THEN [posts |-> <<MsgWaitForLock(cid, CmdTs(cmd), w.pr, w.lock_info.lock,
                                         w.lock_info.is_first_lock,
                                         w.lock_info.wait_timeout)>>,
              submitted |-> FALSE, pending |-> FALSE]
    ELSE IF w.to_be_write = <<>>
        THEN [posts |-> <<MsgWriteFinished(cid, w.pr, "Ok", cmd.kind)>>,
              submitted |-> FALSE, pending |-> FALSE]
    ELSE IF async_write_err # NoErr
        THEN [posts |-> <<>>, submitted |-> TRUE, pending |-> FALSE]
    ELSE [posts |-> <<>>, submitted |-> TRUE, pending |-> TRUE]

\* A faulty variant of process_write_msg: a batch the engine rejects on the
\* call is reported as a write that finished with an error.
process_write_msg_reject_as_write_finished(cid, cmd, w, async_write_err) ==
    IF w.outcome = "Panic"
        THEN [posts |-> <<>>, submitted |-> FALSE, pending |-> FALSE]
    ELSE IF w.outcome = "Err"
        THEN [posts |-> <<MsgFinishedWithErr(cid, w.err, cmd.kind)>>,
              submitted |-> FALSE, pending |-> FALSE]
    ELSE IF w.lock_info.some
        THEN [posts |-> <<MsgWaitForLock(cid, CmdTs(cmd), w.pr, w.lock_info.lock,
                                         w.lock_info.is_first_lock,
                                         w.lock_info.wait_timeout)>>,
              submitted |-> FALSE, pending |-> FALSE]
    ELSE IF w.to_be_write = <<>>
        THEN [posts |-> <<MsgWriteFinished(cid, w.pr, "Ok", cmd.kind)>>,
              submitted |-> FALSE, pending |-> FALSE]
    ELSE IF async_write_err # NoErr
        THEN [posts |-> <<MsgWriteFinished(cid, w.pr, "Err", cmd.kind)>>,
              submitted |-> TRUE, pending |-> FALSE]
    ELSE [posts |-> <<>>, submitted |-> TRUE, pending |-> TRUE]

\* Executor::process_write, the message chosen from the processor's result:
\* posts is what notify_scheduler is given on return, submitted says that
\* async_write was called with to_be_write, and pending that it took engine_cb.
\* async_write_err is what async_write returned: NoErr for Ok(()).
process_write_msg(cid, cmd, w, async_write_err) ==
    IF w.outcome = "Panic"
        THEN [posts |-> <<>>, submitted |-> FALSE, pending |-> FALSE]
    ELSE IF w.outcome = "Err"
        THEN [posts |-> <<MsgFinishedWithErr(cid, w.err, cmd.kind)>>,
              submitted |-> FALSE, pending |-> FALSE]
    ELSE IF w.lock_info.some
        THEN [posts |-> <<MsgWaitForLock(cid, CmdTs(cmd), w.pr, w.lock_info.lock,
                                         w.lock_info.is_first_lock,
                                         w.lock_info.wait_timeout)>>,
              submitted |-> FALSE, pending |-> FALSE]
    ELSE IF w.to_be_write = <<>>
        THEN [posts |-> <<MsgWriteFinished(cid, w.pr, "Ok", cmd.kind)>>,
              submitted |-> FALSE, pending |-> FALSE]
    ELSE IF async_write_err # NoErr
        THEN [posts |-> <<MsgFinishedWithErr(cid, async_write_err, cmd.kind)>>,
              submitted |-> TRUE, pending |-> FALSE]
    ELSE [posts |-> <<>>, submitted |-> TRUE, pending |-> TRUE]

\* A faulty variant of engine_cb: the write is reported as applied whatever
\* the engine answered.
engine_cb_reporting_ok(cid, pr, result, tag) == MsgWriteFinished(cid, pr, "Ok", tag)

\* engine_cb, the callback handed to async_write: the message its job posts
\* for the result the engine passes.
engine_cb(cid, pr, result, tag) == MsgWriteFinished(cid, pr, result, tag)

\* The keys a command latches in the scheduler before it reaches the executor.
RECURSIVE FirstsFrom(_, _)
FirstsFrom(pairs, i) ==
    IF i > Len(pairs) THEN {} ELSE {pairs[i][1]} \cup FirstsFrom(pairs, i + 1)

LatchKeys(cmd) ==
    CASE cmd.kind = "Prewrite" -> {m.key : m \in Range(cmd.mutations)}
      [] cmd.kind = "AcquirePessimisticLock" -> FirstsFrom(cmd.keys, 1)
      [] cmd.kind \in {"Commit", "Rollback", "PessimisticRollback"} -> Range(cmd.keys)
      [] cmd.kind = "Cleanup" -> {cmd.key}
      [] cmd.kind = "ResolveLock" -> FirstsFrom(cmd.key_locks, 1)
      [] cmd.kind = "ResolveLockLite" -> Range(cmd.resolve_keys)
      [] cmd.kind \in {"TxnHeartBeat", "CheckTxnStatus"} -> {cmd.primary_key}
      [] OTHER -> {}

InFlight(cid) == task[cid].pc \notin {"new", "done"}

LatchesFree(cmd) ==
    \A c \in Cids : InFlight(c) => LatchKeys(task[c].cmd) \cap LatchKeys(cmd) = {}

(***************************************************************************)
(* The commands the scheduler may hand over, and the engine states the     *)
(* model starts from: each is what the engine holds after it applied the   *)
(* writes of a sequence of commands, starting empty.                       *)
(***************************************************************************)
Batch2 == <<Mutation("Put", 1, FALSE), Mutation("Insert", 2, TRUE)>>

\* One Insert per key, in key order: more than FORWARD_MIN_MUTATIONS_NUM mutations.
AscBatch == [i \in 1..NumKeys |-> Mutation("Insert", i, FALSE)]

OptimisticOptions == Options(0, FALSE, <<>>)

PessimisticOptions(for_update_ts, is_pessimistic_lock) ==
    Options(for_update_ts, FALSE, is_pessimistic_lock)

PrewriteCmds ==
    {CmdPrewrite(Batch2, 1, ts, OptimisticOptions) : ts \in {1, 3}}
    \cup {CmdPrewrite(Batch2, 1, 2, PessimisticOptions(2, <<TRUE, FALSE>>)),
          CmdPrewrite(Batch2, 1, 3, PessimisticOptions(3, <<FALSE, FALSE>>)),
          CmdPrewrite(AscBatch, 1, 3, OptimisticOptions)}

AcquireCmds ==
    {CmdAcquirePessimisticLock(<<<<1, FALSE>>, <<2, TRUE>>>>, 1, ts,
                               [PessimisticOptions(ts, <<>>) EXCEPT
                                    !.is_first_lock = (ts = 2), !.wait_timeout = ts]) :
        ts \in {2, 3}}

CommitCmds ==
    {CmdCommit(<<1, 2>>, p[1], p[2]) : p \in {<<1, 2>>, <<1, 1>>, <<3, 2>>, <<3, 4>>, <<2, 4>>}}

CleanupCmds == {CmdCleanup(1, 1, current_ts) : current_ts \in {0, 2, 4}}

RollbackCmds == {CmdRollback(<<1, 2>>, ts) : ts \in {1, 3}}

PessimisticRollbackCmds == {CmdPessimisticRollback(<<1, 2>>, 2, 2)}

ResolveLockCmds ==
    {CmdResolveLock(st, 0, <<>>) : st \in {(1 :> 2), (1 :> 0 @@ 2 :> 0 @@ 3 :> 4), (3 :> 2)}}

ResolveLockLiteCmds ==
    {CmdResolveLockLite(p[1], p[2], <<1, 2>>) : p \in {<<1, 2>>, <<1, 0>>, <<3, 2>>}}

StatusCmds ==
    {CmdTxnHeartBeat(1, 1, 3)}
    \cup {CmdCheckTxnStatus(1, 1, 3, current_ts, rb) :
              current_ts \in {1, 4}, rb \in BOOLEAN}

ReadCmds == {CmdMvccByKey(1), CmdMvccByStartTs(1), CmdScanLock(3, 0, 0)}

Commands ==
    PrewriteCmds \cup AcquireCmds \cup CommitCmds \cup CleanupCmds \cup RollbackCmds
    \cup PessimisticRollbackCmds \cup ResolveLockCmds \cup ResolveLockLiteCmds
    \cup StatusCmds \cup ReadCmds \cup {CmdPause(1)}

\* The engine after a command ran on it and its writes were applied.
RunOn(d, cmd) ==
    LetIn(process_write_impl(cmd, d, FALSE, FALSE),
          LAMBDA w : IF w.outcome = "Ok" THEN ApplyWrite(d, w.to_be_write) ELSE d)

RECURSIVE RunFrom(_, _, _)
RunFrom(d, cmds, i) ==
    IF i > Len(cmds) THEN d ELSE LetIn(RunOn(d, cmds[i]), LAMBDA e : RunFrom(e, cmds, i + 1))

SeedScripts ==
    {<<>>,
     <<CmdPrewrite(Batch2, 1, 1, OptimisticOptions)>>,
     <<CmdPrewrite(Batch2, 1, 1, OptimisticOptions), CmdCommit(<<1, 2>>, 1, 2)>>,
     <<CmdAcquirePessimisticLock(<<<<1, FALSE>>, <<2, FALSE>>>>, 1, 2,
                                 PessimisticOptions(2, <<>>))>>,
     <<CmdPrewrite(Batch2, 1, 1, OptimisticOptions), CmdCommit(<<1, 2>>, 1, 2),
       CmdPrewrite(<<Mutation("Put", 2, TRUE)>>, 2, 3, OptimisticOptions)>>,
     <<CmdPrewrite(<<Mutation("Put", 2, TRUE)>>, 2, 3, OptimisticOptions)>>,
     <<CmdPrewrite(AscBatch, 1, 1, OptimisticOptions)>>}

SeedDbs == {RunFrom(EmptyDb, script, 1) : script \in SeedScripts}

\* One command of each kind, and two engine states with locks to work on.
OneOfEachKind ==
    {CmdPrewrite(Batch2, 1, 3, OptimisticOptions),
     CmdAcquirePessimisticLock(<<<<1, FALSE>>, <<2, TRUE>>>>, 1, 3,
                               PessimisticOptions(3, <<>>)),
     CmdCommit(<<1, 2>>, 1, 2),
     CmdCleanup(1, 1, 4),
     CmdRollback(<<1, 2>>, 1),
     CmdPessimisticRollback(<<1, 2>>, 2, 2),
     CmdResolveLock((1 :> 2), 0, <<>>),
     CmdResolveLockLite(1, 0, <<1, 2>>),
     CmdTxnHeartBeat(1, 1, 3),
     CmdCheckTxnStatus(1, 1, 3, 4, TRUE),
     CmdMvccByKey(1), CmdMvccByStartTs(1), CmdScanLock(3, 0, 0), CmdPause(1)}

LockedSeedDbs ==
    {RunFrom(EmptyDb, script, 1) : script \in
        {<<CmdPrewrite(Batch2, 1, 1, OptimisticOptions)>>,
         <<CmdAcquirePessimisticLock(<<<<1, FALSE>>, <<2, FALSE>>>>, 1, 2,
                                     PessimisticOptions(2, <<>>))>>}}

NoProbe == [op |-> "none"]

(***************************************************************************)
(* The executor's state machine.                                           *)
(***************************************************************************)
Init ==
    /\ db \in SeedDbs
    /\ lockMgr \in BOOLEAN
    /\ task = [cid \in Cids |-> NewTask]
    /\ msgs = [cid \in Cids |-> <<>>]
    /\ wakeups = [cid \in Cids |-> <<>>]
    /\ engineLog = [cid \in Cids |-> <<>>]
    /\ probe = NoProbe

\* The commands the scheduler issues next: a fresh one, or the NextCommand a
\* finished command returned.
NextCommands ==
    {msgs[c][i].pr.cmd : <<c, i>> \in
        {p \in Cids \X (1..1) :
            /\ Len(msgs[p[1]]) >= p[2]
            /\ msgs[p[1]][p[2]].type \in {"ReadFinished", "WriteFinished"}
            /\ msgs[p[1]][p[2]].pr.kind = "NextCommand"}}

\* The scheduler got the snapshot (or its error) of a new command, holding the
\* command's latches, and calls Executor::execute.
Dispatch(cid, menu) ==
    /\ task[cid].pc = "new"
    /\ \A c \in Cids : c < cid => task[c].pc # "new"
    /\ \E cmd \in menu, snapshot \in {SnapOk(db)} \cup {SnapErr(e) : e \in EngineErrs} :
        /\ LatchesFree(cmd)
        /\ task' = [task EXCEPT ![cid] = execute(snapshot, cmd)]
    /\ UNCHANGED <<db, lockMgr, msgs, wakeups, engineLog, probe>>

Execute(cid) == Dispatch(cid, Commands \cup NextCommands)

\* The same, the scheduler issuing one command of each kind.
ExecuteOneOfEachKind(cid) == Dispatch(cid, OneOfEachKind \cup NextCommands)

\* The pool runs the job execute spawned on a snapshot error.
RunErrJob(cid) ==
    /\ task[cid].pc = "err_job"
    /\ msgs' = [msgs EXCEPT ![cid] =
                   Append(@, MsgFinishedWithErr(cid, task[cid].snapshot_err, task[cid].cmd.kind))]
    /\ task' = [task EXCEPT ![cid].pc = "done"]
    /\ UNCHANGED <<db, lockMgr, wakeups, engineLog, probe>>

\* The pool runs the job process_by_worker spawned, a read command.
RunReadJob(cid) ==
    /\ task[cid].pc = "proc_job"
    /\ readonly(task[cid].cmd)
    /\ \E r \in {process_read(cid, task[cid].cmd, task[cid].snapshot)} :
           /\ msgs' = [msgs EXCEPT ![cid] = @ \o r.posts]
           /\ task' = [task EXCEPT ![cid].pc = IF r.outcome = "Panic" THEN "panicked"
                                               ELSE "done",
                                   ![cid].outcome = r.outcome,
                                   ![cid].pr = r.pr]
    /\ UNCHANGED <<db, lockMgr, wakeups, engineLog, probe>>

\* Whether the command asks the lock manager has_waiter().
AsksHasWaiter(cmd) ==
    cmd.kind \in {"Commit", "Cleanup", "Rollback", "PessimisticRollback", "ResolveLock",
                  "ResolveLockLite", "CheckTxnStatus"}

\* A faulty variant of RunWriteJob: the waiters of a command whose batch goes
\* to the engine are left for the engine's answer to wake.
RunWriteJob_waking_after_engine(cid) ==
    /\ task[cid].pc = "proc_job"
    /\ ~readonly(task[cid].cmd)
    /\ \E has_waiter \in IF lockMgr /\ AsksHasWaiter(task[cid].cmd) THEN BOOLEAN ELSE {FALSE} :
        \E w \in {process_write_impl(task[cid].cmd, task[cid].snapshot, lockMgr,
                                     has_waiter)} :
        \E async_write_err \in IF w.outcome = "Ok" /\ ~w.lock_info.some
                                  /\ w.to_be_write # <<>>
                               THEN {NoErr} \cup EngineErrs ELSE {NoErr} :
        \E m \in {process_write_msg(cid, task[cid].cmd, w, async_write_err)} :
                /\ wakeups' = [wakeups EXCEPT ![cid] =
                                  IF m.submitted THEN @ ELSE @ \o w.wakes]
                /\ msgs' = [msgs EXCEPT ![cid] = @ \o m.posts]
                /\ engineLog' = [engineLog EXCEPT ![cid] =
                                    IF m.submitted THEN Append(@, w.to_be_write) ELSE @]
                /\ task' = [task EXCEPT
                       ![cid].pc = IF w.outcome = "Panic" THEN "panicked"
                                   ELSE IF m.pending THEN "engine" ELSE "done",
                       ![cid].outcome = w.outcome,
                       ![cid].pr = w.pr,
                       ![cid].rows = w.rows,
                       ![cid].has_waiter = has_waiter,
                       ![cid].to_be_write = w.to_be_write,
                       ![cid].lock_info = w.lock_info,
                       ![cid].async_write_err = async_write_err]
    /\ UNCHANGED <<db, lockMgr, probe>>

\* The pool runs the job process_by_worker spawned, a write command:
\* Executor::process_write.  The lock manager answers has_waiter() and the
\* engine takes or rejects the batch.
RunWriteJob(cid) ==
    /\ task[cid].pc = "proc_job"
    /\ ~readonly(task[cid].cmd)
    /\ \E has_waiter \in IF lockMgr /\ AsksHasWaiter(task[cid].cmd) THEN BOOLEAN ELSE {FALSE} :
        \E w \in {process_write_impl(task[cid].cmd, task[cid].snapshot, lockMgr,
                                     has_waiter)} :
        \E async_write_err \in IF w.outcome = "Ok" /\ ~w.lock_info.some
                                  /\ w.to_be_write # <<>>
                               THEN {NoErr} \cup EngineErrs ELSE {NoErr} :
        \E m \in {process_write_msg(cid, task[cid].cmd, w, async_write_err)} :
                /\ wakeups' = [wakeups EXCEPT ![cid] = @ \o w.wakes]
                /\ msgs' = [msgs EXCEPT ![cid] = @ \o m.posts]
                /\ engineLog' = [engineLog EXCEPT ![cid] =
                                    IF m.submitted THEN Append(@, w.to_be_write) ELSE @]
                /\ task' = [task EXCEPT
                       ![cid].pc = IF w.outcome = "Panic" THEN "panicked"
                                   ELSE IF m.pending THEN "engine" ELSE "done",
                       ![cid].outcome = w.outcome,
                       ![cid].pr = w.pr,
                       ![cid].rows = w.rows,
                       ![cid].has_waiter = has_waiter,
                       ![cid].to_be_write = w.to_be_write,
                       ![cid].lock_info = w.lock_info,
                       ![cid].async_write_err = async_write_err]
    /\ UNCHANGED <<db, lockMgr, probe>>

\* The engine finishes an accepted write, applying the batch or failing, and
\* calls engine_cb, which spawns the job that reports it.
EngineCallback(cid) ==
    /\ task[cid].pc = "engine"
    /\ \E ok \in BOOLEAN :
        /\ db' = IF ok THEN ApplyWrite(db, task[cid].to_be_write) ELSE db
        /\ task' = [task EXCEPT ![cid].pc = "cb_job",
                                ![cid].result = IF ok THEN "Ok" ELSE "Err"]
    /\ UNCHANGED <<lockMgr, msgs, wakeups, engineLog, probe>>

\* The pool runs the job engine_cb spawned.
RunCallbackJob(cid) ==
    /\ task[cid].pc = "cb_job"
    /\ msgs' = [msgs EXCEPT ![cid] =
                   Append(@, engine_cb(cid, task[cid].pr, task[cid].result,
                                       task[cid].cmd.kind))]
    /\ task' = [task EXCEPT ![cid].pc = "done"]
    /\ UNCHANGED <<db, lockMgr, wakeups, engineLog, probe>>

Next ==
    \E cid \in Cids :
        \/ Execute(cid)
        \/ RunErrJob(cid)
        \/ RunReadJob(cid)
        \/ RunWriteJob(cid)
        \/ EngineCallback(cid)
        \/ RunCallbackJob(cid)

Spec == Init /\ [][Next]_vars

\* The worker pool runs every job spawned on it, and the engine calls the
\* callback of every write it accepted.
Fairness ==
    \A cid \in Cids :
        /\ WF_vars(RunErrJob(cid))
        /\ WF_vars(RunReadJob(cid))
        /\ WF_vars(RunWriteJob(cid))
        /\ WF_vars(EngineCallback(cid))
        /\ WF_vars(RunCallbackJob(cid))

FairInit == Init /\ db \in LockedSeedDbs

FairNext ==
    \E cid \in Cids :
        \/ ExecuteOneOfEachKind(cid)
        \/ RunErrJob(cid)
        \/ RunReadJob(cid)
        \/ RunWriteJob(cid)
        \/ EngineCallback(cid)
        \/ RunCallbackJob(cid)

FairSpec == FairInit /\ [][FairNext]_vars /\ Fairness

(***************************************************************************)
(* The ResolveLock chain on its own: the scheduler re-issues the            *)
(* NextCommand of each phase, and the engine applies the batch of a write   *)
(* phase before the next snapshot is taken.  probe holds the command to     *)
(* issue, the locks the chain started from, and how often each key's lock   *)
(* was resolved.                                                           *)
(***************************************************************************)
\* One Put per key of keys, in key order; one key in four has a long value.
RECURSIVE PutsFrom(_, _)
PutsFrom(keys, k) ==
    IF k > NumKeys THEN <<>>
    ELSE (IF k \in keys THEN <<Mutation("Put", k, k % 4 = 1)>> ELSE <<>>)
         \o PutsFrom(keys, k + 1)

\* The engine holding the locks of transaction 1 on keys1 and of 2 on keys2.
LockedBy(keys1, keys2) ==
    RunFrom(EmptyDb,
            (IF keys1 = {} THEN <<>>
             ELSE <<CmdPrewrite(PutsFrom(keys1, 1), 1, 1, OptimisticOptions)>>)
            \o (IF keys2 = {} THEN <<>>
                ELSE <<CmdPrewrite(PutsFrom(keys2, 1), 1, 2, OptimisticOptions)>>),
            1)

ResolveDbs ==
    {LockedBy(Keys, {}),
     LockedBy({k \in Keys : k % 2 = 1}, {k \in Keys : k % 2 = 0}),
     LockedBy({k \in Keys : k <= 6}, {}),
     LockedBy({k \in Keys : k % 3 = 1}, {k \in Keys : k % 3 = 0}),
     LockedBy({k \in Keys : k >= NumKeys - 1}, {1}),
     LockedBy({1, 2}, {}),
     LockedBy({}, {})}

ResolveStatuses ==
    {(1 :> 3), (1 :> 0), (1 :> 3 @@ 2 :> 0), (1 :> 0 @@ 2 :> 4), (2 :> 3), (1 :> 1)}

ResolveInit ==
    /\ db \in ResolveDbs
    /\ lockMgr \in BOOLEAN
    /\ task = [cid \in Cids |-> NewTask]
    /\ msgs = [cid \in Cids |-> <<>>]
    /\ wakeups = [cid \in Cids |-> <<>>]
    /\ engineLog = [cid \in Cids |-> <<>>]
    /\ probe \in {[op |-> "resolve", pc |-> "read", cmd |-> CmdResolveLock(st, 0, <<>>),
                    locks0 |-> db.locks, resolved |-> [k \in Keys |-> 0]] :
                       st \in ResolveStatuses}

\* How many times the batch deletes the lock of key.
Resolutions(mods, key) ==
    Cardinality({j \in DOMAIN mods :
                    mods[j].cf = "lock" /\ mods[j].op = "Delete" /\ mods[j].key = key})

\* The read phase of the command in probe, on a new snapshot.
ResolveRead ==
    /\ probe.op = "resolve"
    /\ probe.pc = "read"
    /\ \E r \in {process_read_impl(probe.cmd, db)} :
           probe' = IF r.pr.kind = "NextCommand"
                        THEN [probe EXCEPT !.pc = "write", !.cmd = r.pr.cmd]
                    ELSE [probe EXCEPT !.pc = "done"]
    /\ UNCHANGED <<db, lockMgr, task, msgs, wakeups, engineLog>>

\* The write phase of the command in probe, and the engine applying its batch.
ResolveWrite ==
    /\ probe.op = "resolve"
    /\ probe.pc = "write"
    /\ \E has_waiter \in IF lockMgr THEN BOOLEAN ELSE {FALSE} :
       \E w \in {process_write_impl(probe.cmd, db, lockMgr, has_waiter)} :
           IF w.outcome = "Ok"
               THEN /\ db' = ApplyWrite(db, w.to_be_write)
                    /\ probe' = [probe EXCEPT
                           !.pc = IF w.pr.kind = "NextCommand" THEN "read" ELSE "done",
                           !.cmd = IF w.pr.kind = "NextCommand" THEN w.pr.cmd ELSE @,
                           !.resolved = [k \in Keys |->
                                            @[k] + Resolutions(w.to_be_write, k)]]
           ELSE /\ probe' = [probe EXCEPT !.pc = "failed"]
                /\ UNCHANGED db
    /\ UNCHANGED <<lockMgr, task, msgs, wakeups, engineLog>>

ResolveNext == ResolveRead \/ ResolveWrite

SpecResolve == ResolveInit /\ [][ResolveNext]_vars

\* The scheduler re-issues every NextCommand it is given and the worker pool
\* runs the job of every command issued.
FairResolve == WF_vars(ResolveRead) /\ WF_vars(ResolveWrite)

FairSpecResolve == ResolveInit /\ [][ResolveNext]_vars /\ FairResolve

(***************************************************************************)
(* One write phase of ResolveLock on its own: the command carries locks    *)
(* scanned without a filter, so that some may belong to transactions       *)
(* txn_status does not know.  probe holds the command, the has_waiter()    *)
(* answer and what process_write_impl returned on db.                      *)
(***************************************************************************)
\* Transaction 1 and 2 hold optimistic locks, transaction 2 also locks of a
\* pessimistic prewrite (keys 3, 7) and a pessimistic lock (key 8).
MixedLocksDb ==
    RunFrom(EmptyDb,
            <<CmdPrewrite(PutsFrom({1, 4, 5, 6}, 1), 1, 1, OptimisticOptions),
              CmdPrewrite(PutsFrom({2, 9}, 1), 2, 2, OptimisticOptions),
              CmdAcquirePessimisticLock(<<<<3, FALSE>>, <<7, FALSE>>, <<8, FALSE>>>>, 3, 2,
                                        PessimisticOptions(2, <<>>)),
              CmdPrewrite(PutsFrom({3, 7}, 1), 3, 2,
                          PessimisticOptions(2, <<TRUE, TRUE>>))>>,
            1)

ResolveWriteDbs == ResolveDbs \cup {MixedLocksDb}

NoWriteResult == [outcome |-> "None"]

ResolveWriteInit ==
    /\ db \in ResolveWriteDbs
    /\ lockMgr \in BOOLEAN
    /\ task = [cid \in Cids |-> NewTask]
    /\ msgs = [cid \in Cids |-> <<>>]
    /\ wakeups = [cid \in Cids |-> <<>>]
    /\ engineLog = [cid \in Cids |-> <<>>]
    /\ probe \in {[op |-> "resolve_write", pc |-> "issued",
                    cmd |-> CmdResolveLock(st, 0, scan_locks(db, start, StartTs, limit)[1]),
                    has_waiter |-> FALSE, w |-> NoWriteResult] :
                       st \in ResolveStatuses, start \in {0, 2, 6},
                       limit \in {0, RESOLVE_LOCK_BATCH_SIZE}}
    /\ probe.cmd.key_locks # <<>>

\* The write phase of the command in probe.
ProcessResolveWrite ==
    /\ probe.op = "resolve_write"
    /\ probe.pc = "issued"
    /\ \E has_waiter \in IF lockMgr THEN BOOLEAN ELSE {FALSE} :
       \E w \in {process_write_impl(probe.cmd, db, lockMgr, has_waiter)} :
           probe' = [probe EXCEPT !.pc = "processed", !.has_waiter = has_waiter, !.w = w]
    /\ UNCHANGED <<db, lockMgr, task, msgs, wakeups, engineLog>>

SpecResolveWrite == ResolveWriteInit /\ [][ProcessResolveWrite]_vars

(***************************************************************************)
(* The write processor on its own, for commands over key lists whose locks *)
(* differ: of one transaction or another, optimistic or pessimistic, or    *)
(* missing.  probe holds the command, the has_waiter() answer and what     *)
(* process_write_impl returned on db.                                      *)
(***************************************************************************)
ReleaseKeyLists == {<<>>, <<2>>, <<1, 2>>, <<2, 3>>, <<3, 2>>, <<3, 7>>}

ReleaseCmds ==
    {CmdCommit(keys, ts, commit_ts) :
        keys \in ReleaseKeyLists, ts \in {1, 2}, commit_ts \in {2, 3}}
    \cup {CmdRollback(keys, ts) : keys \in ReleaseKeyLists, ts \in {1, 2}}
    \cup {CmdResolveLockLite(ts, commit_ts, keys) :
              keys \in ReleaseKeyLists, ts \in {1, 2}, commit_ts \in {0, 3}}
    \cup {CmdPessimisticRollback(keys, 2, 2) : keys \in ReleaseKeyLists}
    \cup {CmdCleanup(3, 2, 0)}
    \cup CleanupCmds \cup StatusCmds \cup PrewriteCmds \cup AcquireCmds

ReleaseDbs == SeedDbs \cup {MixedLocksDb}

ReleaseInit ==
    /\ db \in ReleaseDbs
    /\ lockMgr \in BOOLEAN
    /\ task = [cid \in Cids |-> NewTask]
    /\ msgs = [cid \in Cids |-> <<>>]
    /\ wakeups = [cid \in Cids |-> <<>>]
    /\ engineLog = [cid \in Cids |-> <<>>]
    /\ probe \in {[op |-> "release", pc |-> "issued", cmd |-> cmd,
                    has_waiter |-> FALSE, w |-> NoWriteResult] :
                       cmd \in ReleaseCmds
                           \cup {CmdResolveLock(st, 0,
                                     scan_locks(db, 0, StartTs, RESOLVE_LOCK_BATCH_SIZE)[1]) :
                                     st \in ResolveStatuses}}
    /\ probe.cmd.kind = "ResolveLock" => probe.cmd.key_locks # <<>>

\* Executor::process_write up to the return of process_write_impl.
ProcessRelease ==
    /\ probe.op = "release"
    /\ probe.pc = "issued"
    /\ \E has_waiter \in IF lockMgr /\ AsksHasWaiter(probe.cmd) THEN BOOLEAN ELSE {FALSE} :
       \E w \in {process_write_impl(probe.cmd, db, lockMgr, has_waiter)} :
           probe' = [probe EXCEPT !.pc = "processed", !.has_waiter = has_waiter, !.w = w]
    /\ UNCHANGED <<db, lockMgr, task, msgs, wakeups, engineLog>>

SpecRelease == ReleaseInit /\ [][ProcessRelease]_vars

(***************************************************************************)
(* The write processor next to the lock manager: a waiter may register     *)
(* while the command is being processed.  probe holds the command, whether *)
(* the lock manager has a waiter now, the has_waiter() answer the command  *)
(* got and when, and pc, the processor's position: issued, sampled (before *)
(* the MVCC calls), operated (the MVCC calls made), sampled_late, returned.*)
(***************************************************************************)
\* The arms that ask has_waiter() before their first MVCC call: Commit after
\* its timestamp check, Cleanup, Rollback, PessimisticRollback, ResolveLock
\* and ResolveLockLite.
SamplesBeforeLoop(cmd, lock_mgr) ==
    /\ lock_mgr
    /\ \/ cmd.kind \in {"Cleanup", "Rollback", "PessimisticRollback", "ResolveLock",
                         "ResolveLockLite"}
       \/ cmd.kind = "Commit" /\ ~commit_ts_is_invalid(cmd.lock_ts, cmd.commit_ts)

\* CheckTxnStatus asks has_waiter() after check_txn_status has returned
\* TtlExpire or LockNotExist.
SamplesAfterStatus(cmd, snapshot, lock_mgr) ==
    /\ lock_mgr
    /\ cmd.kind = "CheckTxnStatus"
    /\ \E r \in {check_txn_status(MvccTxn(snapshot, cmd.lock_ts), cmd.primary_key,
                                   cmd.caller_start_ts, cmd.current_ts,
                                   cmd.rollback_if_not_exist)} :
           IsOk(r) /\ r.val[1].kind \in {"TtlExpire", "LockNotExist"}

SampleInit ==
    /\ db \in ReleaseDbs
    /\ lockMgr \in BOOLEAN
    /\ task = [cid \in Cids |-> NewTask]
    /\ msgs = [cid \in Cids |-> <<>>]
    /\ wakeups = [cid \in Cids |-> <<>>]
    /\ engineLog = [cid \in Cids |-> <<>>]
    /\ probe \in {[op |-> "sample", pc |-> "issued", cmd |-> cmd, waiters |-> waiters,
                    samples |-> 0, sampled_at |-> "never", has_waiter |-> FALSE,
                    w |-> NoWriteResult] :
                       waiters \in BOOLEAN,
                       cmd \in ReleaseCmds
                           \cup {CmdResolveLock(st, 0,
                                     scan_locks(db, 0, StartTs, RESOLVE_LOCK_BATCH_SIZE)[1]) :
                                     st \in ResolveStatuses}}
    /\ probe.cmd.kind = "ResolveLock" => probe.cmd.key_locks # <<>>
    /\ probe.waiters => lockMgr

\* Another transaction starts to wait for a lock: the lock manager has a
\* waiter from now on.
WaiterRegisters ==
    /\ probe.op = "sample"
    /\ probe.pc # "returned"
    /\ lockMgr
    /\ ~probe.waiters
    /\ probe' = [probe EXCEPT !.waiters = TRUE]
    /\ UNCHANGED <<db, lockMgr, task, msgs, wakeups, engineLog>>

\* lm.has_waiter(): the answer is kept in a local.
SampleHasWaiter ==
    /\ probe.op = "sample"
    /\ \/ probe.pc = "issued" /\ SamplesBeforeLoop(probe.cmd, lockMgr)
       \/ probe.pc = "operated" /\ SamplesAfterStatus(probe.cmd, db, lockMgr)
    /\ probe' = [probe EXCEPT !.pc = IF probe.pc = "issued" THEN "sampled"
                                     ELSE "sampled_late",
                              !.samples = @ + 1,
                              !.sampled_at = IF probe.pc = "issued" THEN "before"
                                             ELSE "after",
                              !.has_waiter = probe.waiters]
    /\ UNCHANGED <<db, lockMgr, task, msgs, wakeups, engineLog>>

\* The MVCC calls of the arm, on the command's snapshot.
RunKeyOperations ==
    /\ probe.op = "sample"
    /\ \/ probe.pc = "sampled"
       \/ probe.pc = "issued" /\ ~SamplesBeforeLoop(probe.cmd, lockMgr)
    /\ probe' = [probe EXCEPT !.pc = "operated"]
    /\ UNCHANGED <<db, lockMgr, task, msgs, wakeups, engineLog>>

\* wake_up_waiters_if_needed with the key hashes kept, and the return.
ReturnWriteResult ==
    /\ probe.op = "sample"
    /\ \/ probe.pc = "sampled_late"
       \/ probe.pc = "operated" /\ ~SamplesAfterStatus(probe.cmd, db, lockMgr)
    /\ probe' = [probe EXCEPT
                     !.pc = "returned",
                     !.w = process_write_impl(probe.cmd, db, lockMgr, probe.has_waiter)]
    /\ UNCHANGED <<db, lockMgr, task, msgs, wakeups, engineLog>>

SampleNext == WaiterRegisters \/ SampleHasWaiter \/ RunKeyOperations \/ ReturnWriteResult

SpecSample == SampleInit /\ [][SampleNext]_vars

(***************************************************************************)
(* Prewrite of a large optimistic batch on its own: probe holds the         *)
(* command and what process_write_impl returned for it on db.               *)
(***************************************************************************)
\* One mutation per key, starting r keys in, ascending or descending.
Rotated(r, descending, op) ==
    [i \in 1..NumKeys |->
        Mutation(op, IF descending THEN NumKeys - ((i - 1 + r) % NumKeys)
                     ELSE ((i - 1 + r) % NumKeys) + 1, FALSE)]

LargePrewrites ==
    {CmdPrewrite(Rotated(r, descending, op), 1, ts, OptimisticOptions) :
        r \in 0..(NumKeys - 1), descending \in BOOLEAN, op \in {"Insert", "Put"},
        ts \in {1, 3}}

PutAt(key, ts) == CmdPrewrite(<<Mutation("Put", key, FALSE)>>, key, ts, OptimisticOptions)

PrewriteDbs ==
    {RunFrom(EmptyDb, script, 1) : script \in
        {<<>>,
         <<PutAt(5, 2)>>,
         <<PutAt(3, 2), PutAt(11, 2)>>,
         <<PutAt(4, 1), CmdCommit(<<4>>, 1, 2)>>,
         <<PutAt(4, 1), CmdCommit(<<4>>, 1, 2), PutAt(9, 3), CmdCommit(<<9>>, 3, 4)>>,
         <<PutAt(4, 1), CmdCommit(<<4>>, 1, 2), PutAt(9, 3), CmdCommit(<<9>>, 3, 4),
           PutAt(2, 2), PutAt(12, 2)>>}}

PrewriteInit ==
    /\ db \in PrewriteDbs
    /\ lockMgr = FALSE
    /\ task = [cid \in Cids |-> NewTask]
    /\ msgs = [cid \in Cids |-> <<>>]
    /\ wakeups = [cid \in Cids |-> <<>>]
    /\ engineLog = [cid \in Cids |-> <<>>]
    /\ probe \in {[op |-> "prewrite", pc |-> "new", cmd |-> cmd, got |-> WritePanic(<<>>)] :
                       cmd \in LargePrewrites}

\* process_write_impl runs on the command in probe.
ProcessPrewrite ==
    /\ probe.op = "prewrite"
    /\ probe.pc = "new"
    /\ probe' = [probe EXCEPT !.pc = "processed",
                              !.got = process_write_impl(probe.cmd, db, lockMgr, FALSE)]
    /\ UNCHANGED <<db, lockMgr, task, msgs, wakeups, engineLog>>

\* The engine applies the batch of the command in probe.
ApplyPrewrite ==
    /\ probe.op = "prewrite"
    /\ probe.pc = "processed"
    /\ probe.got.outcome = "Ok"
    /\ probe.got.to_be_write # <<>>
    /\ db' = ApplyWrite(db, probe.got.to_be_write)
    /\ probe' = [probe EXCEPT !.pc = "applied"]
    /\ UNCHANGED <<lockMgr, task, msgs, wakeups, engineLog>>

PrewriteNext == ProcessPrewrite \/ ApplyPrewrite

SpecPrewrite == PrewriteInit /\ [][PrewriteNext]_vars

(***************************************************************************)
(* Prewrite around the threshold of the fast path: batches of more than    *)
(* FORWARD_MIN_MUTATIONS_NUM mutations and of exactly that many, optimistic *)
(* and pessimistic, with one primary or another.  probe holds the command, *)
(* what prewrite_fast_path made of it, the WriteResult and the seeks on    *)
(* the write column family.                                                *)
(***************************************************************************)
\* One mutation per key but the first key, the second key written twice: the
\* range of the batch leaves the first key out.
WithoutFirstKey(op) ==
    [i \in 1..NumKeys |-> Mutation(op, IF i = NumKeys THEN 2 ELSE i + 1, FALSE)]

FastPathPrewrites ==
    {CmdPrewrite(Rotated(r, descending, op), primary, ts, OptimisticOptions) :
        r \in {0, 5}, descending \in BOOLEAN, op \in {"Insert", "Put"},
        primary \in {1, 6, NumKeys}, ts \in {1, 3}}
    \cup {CmdPrewrite(WithoutFirstKey(op), 2, 3, OptimisticOptions) : op \in {"Insert", "Put"}}
    \cup {CmdPrewrite(SubSeq(Rotated(r, TRUE, op), 1, FORWARD_MIN_MUTATIONS_NUM), 1, 3,
                      Options(0, skip, <<>>)) :
              r \in {0, 5}, op \in {"Insert", "Put"}, skip \in BOOLEAN}
    \cup {CmdPrewrite(Rotated(r, TRUE, "Put"), 1, 3,
                      PessimisticOptions(3, [i \in 1..NumKeys |-> FALSE])) : r \in {0, 5}}

FastPathDbs ==
    PrewriteDbs \cup {RunFrom(EmptyDb, <<PutAt(1, 1), CmdCommit(<<1>>, 1, 2)>>, 1)}

FastPathInit ==
    /\ db \in FastPathDbs
    /\ lockMgr = FALSE
    /\ task = [cid \in Cids |-> NewTask]
    /\ msgs = [cid \in Cids |-> <<>>]
    /\ wakeups = [cid \in Cids |-> <<>>]
    /\ engineLog = [cid \in Cids |-> <<>>]
    /\ probe \in {[op |-> "fast_path", pc |-> "new", cmd |-> cmd,
                    fast |-> [mutations |-> <<>>, options |-> cmd.options,
                              scan_mode |-> "None"],
                    got |-> WritePanic(<<>>), seeks |-> 0] :
                       cmd \in FastPathPrewrites}

\* process_write_impl runs on the command in probe.
ProcessFastPath ==
    /\ probe.op = "fast_path"
    /\ probe.pc = "new"
    /\ probe' = [probe EXCEPT !.pc = "processed",
                              !.fast = prewrite_fast_path(probe.cmd, db),
                              !.got = process_write_impl(probe.cmd, db, lockMgr, FALSE),
                              !.seeks = prewrite_write_seeks(probe.cmd, db)]
    /\ UNCHANGED <<db, lockMgr, task, msgs, wakeups, engineLog>>

SpecFastPath == FastPathInit /\ [][ProcessFastPath]_vars

(***************************************************************************)
(* find_mvcc_infos_by_key step by step on one key: probe holds the key and *)
(* the function's locals, pc its position: before load_lock, in the loop,  *)
(* before scan_values_in_default, returned.                                *)
(***************************************************************************)
PutLongAt(key, ts) == CmdPrewrite(<<Mutation("Put", key, TRUE)>>, key, ts, OptimisticOptions)

\* Version histories of key 1, with write records at neighbouring and at
\* distant timestamps, with and without a lock.
HistoryScripts ==
    {<<PutLongAt(1, 1)>>,
     <<PutLongAt(1, 1), CmdCommit(<<1>>, 1, 2), CmdRollback(<<1>>, 3)>>,
     <<PutLongAt(1, 1), CmdCommit(<<1>>, 1, 2), PutLongAt(1, 3), CmdCommit(<<1>>, 3, 4)>>,
     <<PutLongAt(1, 1), CmdCommit(<<1>>, 1, 2), PutLongAt(1, 3)>>,
     <<PutLongAt(1, 1), CmdCommit(<<1>>, 1, 2), CmdRollback(<<1>>, 3), PutLongAt(1, 4)>>,
     <<PutLongAt(1, 1), CmdCommit(<<1>>, 1, 2), CmdRollback(<<1>>, 3), CmdRollback(<<1>>, 4)>>,
     <<CmdRollback(<<1>>, 1), PutLongAt(1, 2), CmdCommit(<<1>>, 2, 4)>>,
     <<CmdRollback(<<1>>, 1), CmdRollback(<<1>>, 2), CmdRollback(<<1>>, 3),
       CmdRollback(<<1>>, 4)>>,
     <<CmdRollback(<<1>>, 1), PutLongAt(1, 2), CmdCommit(<<1>>, 2, 3), PutLongAt(1, 4)>>}

HistoryDbs ==
    SeedDbs \cup PrewriteDbs \cup ResolveDbs
        \cup {RunFrom(EmptyDb, script, 1) : script \in HistoryScripts}

MvccByKeyInit ==
    /\ db \in HistoryDbs
    /\ lockMgr = FALSE
    /\ task = [cid \in Cids |-> NewTask]
    /\ msgs = [cid \in Cids |-> <<>>]
    /\ wakeups = [cid \in Cids |-> <<>>]
    /\ engineLog = [cid \in Cids |-> <<>>]
    /\ probe \in {[op |-> "mvcc_by_key", pc |-> "new", key |-> key, ts |-> TsMax,
                    lock |-> NoLock, writes |-> <<>>, values |-> <<>>] : key \in Keys}

\* let lock = reader.load_lock(key)?
MvccLoadLock ==
    /\ probe.op = "mvcc_by_key"
    /\ probe.pc = "new"
    /\ probe' = [probe EXCEPT !.pc = "loop", !.lock = load_lock(db, probe.key)]
    /\ UNCHANGED <<db, lockMgr, task, msgs, wakeups, engineLog>>

\* One turn of the loop.
MvccSeekWrite ==
    /\ probe.op = "mvcc_by_key"
    /\ probe.pc = "loop"
    /\ probe' = find_mvcc_infos_loop(db, probe.key, probe)
    /\ UNCHANGED <<db, lockMgr, task, msgs, wakeups, engineLog>>

\* The values of the default column family, and the return.
MvccScanValues ==
    /\ probe.op = "mvcc_by_key"
    /\ probe.pc = "scan"
    /\ probe' = [probe EXCEPT !.pc = "returned",
                              !.values = scan_values_in_default(db, probe.key)]
    /\ UNCHANGED <<db, lockMgr, task, msgs, wakeups, engineLog>>

MvccByKeyNext == MvccLoadLock \/ MvccSeekWrite \/ MvccScanValues

\* The function runs on the read pool's thread until it returns.
FairMvccByKey == WF_vars(MvccByKeyNext)

FairSpecMvccByKey == MvccByKeyInit /\ [][MvccByKeyNext]_vars /\ FairMvccByKey

(***************************************************************************)
(* Properties.                                                             *)
(***************************************************************************)
Dispatched(cid) == task[cid].pc # "new"

\* The job that runs the processor on the command has returned.
Processed(cid) == task[cid].pc \in {"engine", "cb_job", "done"} /\ task[cid].outcome # "None"

TerminalTypes == {"ReadFinished", "WriteFinished", "FinishedWithErr", "WaitForLock"}

\* C1: for every command id handed to Executor::execute, at most one of the
\* messages ReadFinished, WriteFinished, FinishedWithErr, WaitForLock is ever
\* posted to the scheduler, whichever path the command takes.
AtMostOneTerminalMessage ==
    \A cid \in Cids :
        /\ Cardinality({i \in DOMAIN msgs[cid] : msgs[cid][i].type \in TerminalTypes}) <= 1
        /\ \A i \in DOMAIN msgs[cid] : msgs[cid][i].cid = cid

\* A write the engine accepted has been reported by its callback, once.
CallbackPostedOnce ==
    \E cid \in Cids :
        /\ task[cid].pc = "done"
        /\ engineLog[cid] # <<>>
        /\ task[cid].result = "Ok"
        /\ Len(msgs[cid]) = 1
        /\ msgs[cid][1].type = "WriteFinished"

PrewriteKeyIsLockedWritesNothing ==
    \A cid \in Cids :
        (/\ task[cid].cmd.kind = "Prewrite"
         /\ Processed(cid)
         /\ task[cid].outcome = "Ok"
         /\ task[cid].pr.kind = "MultiRes"
         /\ task[cid].pr.results # <<>>)
        => /\ task[cid].pc = "done"
           /\ task[cid].to_be_write = <<>>
           /\ task[cid].rows = 0
           /\ engineLog[cid] = <<>>
           /\ msgs[cid] = <<MsgWriteFinished(cid, task[cid].pr, "Ok", "Prewrite")>>

\* A Prewrite of two mutations reported one locked key: the other prewrote.
PrewriteReportedOneLockedKey ==
    \E cid \in Cids :
        /\ task[cid].cmd.kind = "Prewrite"
        /\ task[cid].pc = "done"
        /\ task[cid].outcome = "Ok"
        /\ Len(task[cid].pr.results) = 1
        /\ Len(task[cid].cmd.mutations) = 2

\* C4: a Commit with commit_ts <= lock_ts fails with InvalidTxnTso{start_ts =
\* lock_ts, commit_ts}: no mutations, no wake-up, never committed; and every
\* Commit whose result is committed(commit_ts) has commit_ts > lock_ts.
CommitRejectsInvalidTso ==
    \A cid \in Cids :
        (task[cid].cmd.kind = "Commit" /\ Processed(cid)) =>
            /\ task[cid].cmd.commit_ts <= task[cid].cmd.lock_ts =>
                   /\ msgs[cid] = <<MsgFinishedWithErr(
                                       cid, InvalidTxnTso(task[cid].cmd.lock_ts,
                                                          task[cid].cmd.commit_ts),
                                       "Commit")>>
                   /\ task[cid].outcome = "Err"
                   /\ engineLog[cid] = <<>>
                   /\ wakeups[cid] = <<>>
            /\ (task[cid].outcome = "Ok" /\ task[cid].pr.kind = "TxnStatus"
                   /\ task[cid].pr.txn_status.kind = "Committed")
                 => /\ task[cid].pr.txn_status.commit_ts = task[cid].cmd.commit_ts
                    /\ task[cid].cmd.commit_ts > task[cid].cmd.lock_ts

\* A Commit with commit_ts = lock_ts, on keys the transaction holds locked,
\* was refused.
CommitRefusedAtEqualTs ==
    \E cid \in Cids :
        /\ task[cid].cmd.kind = "Commit"
        /\ task[cid].pc = "done"
        /\ task[cid].cmd.commit_ts = task[cid].cmd.lock_ts
        /\ \A i \in DOMAIN task[cid].cmd.keys :
               load_lock(task[cid].snapshot, task[cid].cmd.keys[i]).ts = task[cid].cmd.lock_ts
        /\ load_lock(task[cid].snapshot, task[cid].cmd.keys[1]).type # "None"
        /\ msgs[cid][1].type = "FinishedWithErr"
        /\ msgs[cid][1].err.kind = "InvalidTxnTso"

\* The write records a command handed to the engine.
SubmittedWrites(cid) ==
    {m \in UNION {Range(engineLog[cid][b]) : b \in DOMAIN engineLog[cid]} :
        m.cf = "write" /\ m.op = "Put"}

\* C5: no write command ever commits a key with a non-zero commit_ts that is
\* <= the transaction's start_ts: Commit, the ResolveLock write phase and
\* ResolveLockLite emit no such commit record.
NoCommitAtOrBelowStartTs ==
    \A cid \in Cids : \A m \in SubmittedWrites(cid) :
        m.write.type # "Rollback" => m.ts > m.write.start_ts

\* The command is of a kind that releases locks, or a CheckTxnStatus that
\* cleaned the primary lock up.
MayHaveReleasedLock(cid) ==
    \/ task[cid].cmd.kind \in {"Commit", "Cleanup", "Rollback", "ResolveLock",
                               "ResolveLockLite"}
    \/ /\ task[cid].cmd.kind = "CheckTxnStatus"
       /\ task[cid].outcome = "Ok"
       /\ task[cid].pr.txn_status.kind \in {"TtlExpire", "LockNotExist"}

WriteProcessed(cid) == Processed(cid) /\ ~readonly(task[cid].cmd)

ResolveWritten(cid) ==
    /\ task[cid].cmd.kind = "ResolveLock"
    /\ WriteProcessed(cid)
    /\ task[cid].outcome = "Ok"
    /\ engineLog[cid] # <<>>

ResolveBatch(cid) == engineLog[cid][1]

\* The modifications of the batch but those of the key it ends with.
BeforeLastKey(mods) == SelectSeq(mods, LAMBDA m : m.key # mods[Len(mods)].key)

\* C7, as stated: each invocation of the ResolveLock write phase produces
\* modifications whose accumulated write size is at most MAX_TXN_WRITE_SIZE.
ResolveWriteSizeAtMostMax ==
    \A cid \in Cids :
        ResolveWritten(cid) => SizeFrom(ResolveBatch(cid), 1) <= MAX_TXN_WRITE_SIZE

\* C7, amended: the accumulated write size is below MAX_TXN_WRITE_SIZE before
\* the last key the invocation resolves; with that key it may exceed the
\* limit, and when it reaches the limit the invocation stops and yields a
\* NextCommand whose scan_key is that key.
ResolveWriteSizeBelowMaxBeforeLastKey ==
    \A cid \in Cids :
        ResolveWritten(cid) =>
            /\ SizeFrom(BeforeLastKey(ResolveBatch(cid)), 1) < MAX_TXN_WRITE_SIZE
            /\ SizeFrom(ResolveBatch(cid), 1) >= MAX_TXN_WRITE_SIZE =>
                   /\ task[cid].pr.kind = "NextCommand"
                   /\ task[cid].pr.cmd.scan_key
                          = ResolveBatch(cid)[Len(ResolveBatch(cid))].key

\* A ResolveLock write phase stopped on size with more than the limit.
ResolveWriteExceededMax ==
    \E cid \in Cids :
        /\ ResolveWritten(cid)
        /\ SizeFrom(ResolveBatch(cid), 1) > MAX_TXN_WRITE_SIZE
        /\ task[cid].pr.kind = "NextCommand"
        /\ Len(task[cid].cmd.key_locks) = RESOLVE_LOCK_BATCH_SIZE

\* The engine has applied the batch of a Commit that succeeded; its callback
\* job has not run yet, so the command still holds its latches.
CommitApplied(cid) ==
    /\ task[cid].cmd.kind = "Commit"
    /\ task[cid].pc = "cb_job"
    /\ task[cid].result = "Ok"

\* What MvccByKey{key} returns on a snapshot taken now.
MvccByKeyNow(key) == process_read_impl(CmdMvccByKey(key), db)

\* C9: after a Commit{keys, lock_ts, commit_ts} succeeded and the engine
\* applied its mutations, MvccByKey{k} on a new snapshot returns, for every k
\* in keys, a write record with commit timestamp commit_ts and no lock.
CommitVisibleToMvccByKey ==
    \A cid \in Cids :
        CommitApplied(cid) =>
            \A i \in DOMAIN task[cid].cmd.keys :
                LET r == MvccByKeyNow(task[cid].cmd.keys[i])
                IN  /\ r.outcome = "Ok"
                    /\ r.pr.kind = "MvccKey"
                    /\ r.pr.mvcc.lock.type = "None"
                    /\ \E j \in DOMAIN r.pr.mvcc.writes :
                           /\ r.pr.mvcc.writes[j][1] = task[cid].cmd.commit_ts
                           /\ r.pr.mvcc.writes[j][2].start_ts = task[cid].cmd.lock_ts

\* A Commit was applied and the MvccByKey dispatched after it has reported.
MvccByKeyReadAfterCommit ==
    \E c1 \in Cids, c2 \in Cids :
        /\ CommitApplied(c1)
        /\ task[c2].cmd.kind = "MvccByKey"
        /\ task[c2].cmd.key = task[c1].cmd.keys[1]
        /\ task[c2].pc = "done"
        /\ task[c2].snapshot = db
        /\ Len(msgs[c2]) = 1
        /\ msgs[c2][1].type = "ReadFinished"
        /\ msgs[c2][1].pr.mvcc.writes[1][1] = task[c1].cmd.commit_ts

\* The locks of the chain's start that its txn_status covers.
ToResolve ==
    {k \in Keys : /\ probe.locks0[k].type # "None"
                  /\ probe.locks0[k].ts \in DOMAIN probe.cmd.txn_status}

\* The lock of k was committed or rolled back as the status of its transaction says.
ResolvedAsStatusSays(k) ==
    LET commit_ts == probe.cmd.txn_status[probe.locks0[k].ts]
        w == get_txn_commit_info(db, k, probe.locks0[k].ts)
    IN  /\ db.locks[k].type = "None"
        /\ IF commit_ts = 0 THEN w.type = "Rollback"
           ELSE w.type = probe.locks0[k].type /\ w.commit_ts = commit_ts

\* C8: when the scheduler keeps re-issuing the NextCommand of ResolveLock, each
\* write applied before the next snapshot, until Res is returned, every lock
\* whose ts is in txn_status is committed or rolled back exactly once: none
\* is skipped and none is resolved twice; the other locks are left alone.
ResolveChainResolvesEachLockOnce ==
    probe.op = "resolve" =>
        /\ \A k \in Keys : probe.resolved[k] <= 1
        /\ \A k \in Keys \ ToResolve :
               probe.resolved[k] = 0 /\ db.locks[k] = probe.locks0[k]
        /\ probe.pc = "done" =>
               \A k \in ToResolve : probe.resolved[k] = 1 /\ ResolvedAsStatusSays(k)

\* A chain of several rounds, one of which stopped on size, has returned Res
\* with every one of more than two batches of locks resolved.
ResolveChainFinished ==
    /\ probe.op = "resolve"
    /\ probe.pc = "done"
    /\ Cardinality(ToResolve) > 2 * RESOLVE_LOCK_BATCH_SIZE
    /\ probe.cmd.scan_key # 0
    /\ \A k \in ToResolve : probe.resolved[k] = 1

\* Prewrite as it would be without the fast-path heuristic: no sort, the
\* caller's options, and a transaction that does not scan.
write_prewrite_without_fast_path(cmd, snapshot) ==
    LetIn(prewrite_loop(MvccTxn(snapshot, cmd.start_ts), cmd.mutations, 1,
                        cmd.primary, cmd.options, <<>>), LAMBDA r :
        IF r.outcome = "Panic" THEN WritePanic(<<>>)
        ELSE IF r.outcome = "Err" THEN WriteErr(r.err, <<>>)
        ELSE prewrite_result(r.locks, r.txn, Len(cmd.mutations)))

\* The outcome of a Prewrite: the error kind, the locks reported and the
\* mutations emitted, in whatever order.
PrewriteOutcome(w) ==
    [outcome |-> w.outcome, error |-> w.err.kind,
     locks |-> IF w.pr.kind = "MultiRes" THEN Range(w.pr.results) ELSE {},
     mutations |-> Range(w.to_be_write), rows |-> w.rows]

PrewriteProcessed == probe.op = "prewrite" /\ probe.pc = "processed"

\* C10, as stated: for an optimistic Prewrite of more than
\* FORWARD_MIN_MUTATIONS_NUM mutations with skip_constraint_check false, the
\* outcome (error kind, reported locks, emitted mutations) is the same as if
\* the fast path did not exist.
LargePrewriteAsWithoutFastPath ==
    PrewriteProcessed =>
        PrewriteOutcome(probe.got)
            = PrewriteOutcome(write_prewrite_without_fast_path(probe.cmd, db))

\* C10, amended: the result is that of processing, with every constraint
\* check, the mutations sorted by key: the error is that of the first failing
\* mutation in key order, which for a batch given in another order may be of
\* another kind than without the heuristic; locks and mutations are those
\* of the unsorted batch, in key order.
LargePrewriteAsSortedWithoutFastPath ==
    PrewriteProcessed =>
        /\ probe.got = write_prewrite_without_fast_path(
                           [probe.cmd EXCEPT !.mutations = sort_by_key(@)], db)
        /\ probe.got.outcome = "Ok" =>
               PrewriteOutcome(probe.got)
                   = PrewriteOutcome(write_prewrite_without_fast_path(probe.cmd, db))

\* A batch not in key order met no write record, so that the constraint check
\* was skipped, and reported the two keys another transaction holds locked.
FastPathReportedLockedKeys ==
    /\ PrewriteProcessed
    /\ probe.cmd.mutations # sort_by_key(probe.cmd.mutations)
    /\ prewrite_fast_path(probe.cmd, db).options.skip_constraint_check
    /\ probe.got.outcome = "Ok"
    /\ Len(probe.got.pr.results) = 2

\* C11: when the snapshot result passed to execute is an error, the only
\* effect is that FinishedWithErr{cid, err, tag} is posted from a worker job:
\* no processor runs, no wake_up is invoked and async_write is never called.
SnapshotErrorOnlyReports ==
    \A cid \in Cids :
        Dispatched(cid) /\ task[cid].snapshot_err # NoErr =>
            /\ task[cid].pc \in {"err_job", "done"}
            /\ task[cid].outcome = "None"
            /\ task[cid].pr = PrRes
            /\ task[cid].to_be_write = <<>>
            /\ wakeups[cid] = <<>>
            /\ engineLog[cid] = <<>>
            /\ msgs[cid] = IF task[cid].pc = "err_job" THEN <<>>
                           ELSE <<MsgFinishedWithErr(cid, task[cid].snapshot_err,
                                                     task[cid].cmd.kind)>>

\* The snapshot of a Commit failed with a timeout and the job reported it,
\* on an executor with a lock manager and locks to commit in the engine.
SnapshotErrorReported ==
    \E cid \in Cids :
        /\ task[cid].cmd.kind = "Commit"
        /\ task[cid].snapshot_err = EngineErr("EngineTimeout")
        /\ task[cid].pc = "done"
        /\ lockMgr
        /\ \E k \in Range(task[cid].cmd.keys) : load_lock(db, k).ts = task[cid].cmd.lock_ts
        /\ msgs[cid] = <<MsgFinishedWithErr(cid, EngineErr("EngineTimeout"), "Commit")>>

\* The write processor succeeded with mutations and no lock to wait for, and
\* async_write took the batch.
WriteAccepted(cid) ==
    /\ WriteProcessed(cid)
    /\ task[cid].outcome = "Ok"
    /\ ~task[cid].lock_info.some
    /\ task[cid].to_be_write # <<>>
    /\ task[cid].async_write_err = NoErr

\* C12: for a write command with non-empty mutations and no lock-wait whose
\* async_write call is accepted, the executor posts nothing itself;
\* WriteFinished is posted only after the engine invoked the callback, with
\* the result the engine passed and the pr of the write processor.
AcceptedWriteReportedByCallback ==
    \A cid \in Cids :
        WriteAccepted(cid) =>
            /\ engineLog[cid] = <<task[cid].to_be_write>>
            /\ task[cid].pc \in {"engine", "cb_job"} => msgs[cid] = <<>>
            /\ task[cid].pc = "engine" => task[cid].result = "None"
            /\ task[cid].pc \in {"cb_job", "done"} => task[cid].result \in {"Ok", "Err"}
            /\ task[cid].pc = "done" =>
                   msgs[cid] = <<MsgWriteFinished(cid, task[cid].pr, task[cid].result,
                                                  task[cid].cmd.kind)>>

\* The engine failed an accepted write and the callback's job reported it.
CallbackReportedEngineErr ==
    \E cid \in Cids :
        /\ WriteAccepted(cid)
        /\ task[cid].pc = "done"
        /\ task[cid].result = "Err"
        /\ Len(msgs[cid]) = 1
        /\ msgs[cid][1].type = "WriteFinished"
        /\ msgs[cid][1].result = "Err"

\* C13: if async_write returns an error synchronously, the message posted for
\* the cid is FinishedWithErr carrying that error, and no WriteFinished is
\* posted for it.
SyncRejectReportsFinishedWithErr ==
    \A cid \in Cids :
        WriteProcessed(cid) /\ task[cid].async_write_err # NoErr =>
            /\ task[cid].pc = "done"
            /\ engineLog[cid] = <<task[cid].to_be_write>>
            /\ msgs[cid] = <<MsgFinishedWithErr(cid, task[cid].async_write_err,
                                                task[cid].cmd.kind)>>

\* async_write refused the batch of a Prewrite with a timeout, and that was
\* reported.
SyncRejectReported ==
    \E cid \in Cids :
        /\ task[cid].cmd.kind = "Prewrite"
        /\ WriteProcessed(cid)
        /\ task[cid].async_write_err = EngineErr("EngineTimeout")
        /\ task[cid].to_be_write # <<>>
        /\ Len(msgs[cid]) = 1
        /\ msgs[cid][1].type = "FinishedWithErr"
        /\ msgs[cid][1].err.kind = "EngineTimeout"

\* The MVCC call the write processor makes for the i-th key of a command,
\* made on the snapshot alone.
KeyResult(cmd, snapshot, i) ==
    CASE cmd.kind = "Commit" ->
            commit(MvccTxn(snapshot, cmd.lock_ts), cmd.keys[i], cmd.commit_ts)
      [] cmd.kind = "Rollback" -> rollback(MvccTxn(snapshot, cmd.start_ts), cmd.keys[i])
      [] cmd.kind = "PessimisticRollback" ->
            pessimistic_rollback(MvccTxn(snapshot, cmd.start_ts), cmd.keys[i],
                                 cmd.for_update_ts)
      [] cmd.kind = "ResolveLockLite" ->
            IF cmd.commit_ts # 0
                THEN commit(MvccTxn(snapshot, cmd.start_ts), cmd.resolve_keys[i], cmd.commit_ts)
            ELSE rollback(MvccTxn(snapshot, cmd.start_ts), cmd.resolve_keys[i])
      [] cmd.kind = "Prewrite" ->
            LET fp == prewrite_fast_path(cmd, snapshot)
            IN  IF cmd.options.for_update_ts = 0
                    THEN prewrite(MvccTxn(snapshot, cmd.start_ts), fp.mutations[i],
                                  cmd.primary, fp.options)
                ELSE pessimistic_prewrite(MvccTxn(snapshot, cmd.start_ts), fp.mutations[i],
                                          cmd.primary, cmd.options.is_pessimistic_lock[i],
                                          fp.options)

KeyCount(cmd) ==
    CASE cmd.kind = "Prewrite" -> Len(cmd.mutations)
      [] cmd.kind = "ResolveLockLite" -> Len(cmd.resolve_keys)
      [] OTHER -> Len(cmd.keys)

\* The MVCC call for the i-th key fails with an error that ends the command.
KeyFails(cmd, snapshot, i) ==
    LET r == KeyResult(cmd, snapshot, i)
    IN  /\ ~IsOk(r)
        /\ cmd.kind = "Prewrite" => r.err.kind # "KeyIsLocked"

\* C14: if the write processor fails part-way through a multi-key command
\* (a non-KeyIsLocked MVCC error in Prewrite or AcquirePessimisticLock, any
\* error in Commit, Rollback, PessimisticRollback, ResolveLock or
\* ResolveLockLite), nothing buffered for the earlier keys reaches the
\* engine: async_write is not called and FinishedWithErr is posted.
FailedWriteReachesNoEngine ==
    \A cid \in Cids :
        /\ WriteProcessed(cid) /\ task[cid].outcome = "Err" =>
               /\ task[cid].pc = "done"
               /\ task[cid].to_be_write = <<>>
               /\ engineLog[cid] = <<>>
               /\ Len(msgs[cid]) = 1
               /\ msgs[cid][1].type = "FinishedWithErr"
               /\ msgs[cid][1].err.kind # "None"
        /\ /\ task[cid].pc \in {"engine", "cb_job", "done", "panicked"}
           /\ task[cid].snapshot_err = NoErr
           /\ task[cid].cmd.kind \in {"Commit", "Rollback", "PessimisticRollback",
                                      "ResolveLockLite", "Prewrite"}
           /\ \E i \in 1..KeyCount(task[cid].cmd) :
                  KeyFails(task[cid].cmd, task[cid].snapshot, i)
           => task[cid].outcome \in {"Err", "Panic"} /\ engineLog[cid] = <<>>

\* A Prewrite buffered the lock of its first key and failed with AlreadyExist
\* on its second, and FinishedWithErr was posted.
PrewriteFailedOnSecondKey ==
    \E cid \in Cids :
        /\ task[cid].cmd.kind = "Prewrite"
        /\ WriteProcessed(cid)
        /\ task[cid].outcome = "Err"
        /\ Len(task[cid].cmd.mutations) = 2
        /\ ~KeyFails(task[cid].cmd, task[cid].snapshot, 1)
        /\ into_modifies(KeyResult(task[cid].cmd, task[cid].snapshot, 1).txn) # <<>>
        /\ KeyFails(task[cid].cmd, task[cid].snapshot, 2)
        /\ msgs[cid] = <<MsgFinishedWithErr(
                            cid, KeyResult(task[cid].cmd, task[cid].snapshot, 2).err,
                            "Prewrite")>>

\* The keys of an AcquirePessimisticLock that another transaction holds locked
\* in the snapshot.
LockedByOthers(cmd, snapshot) ==
    {i \in DOMAIN cmd.keys :
        /\ load_lock(snapshot, cmd.keys[i][1]).type # "None"
        /\ load_lock(snapshot, cmd.keys[i][1]).ts # cmd.start_ts}

\* C15: extract_lock_from_result applied to a result wrapping
\* KeyIsLocked(info) returns Lock{ts = info.lock_version, hash =
\* gen_hash(Key::from_raw(info.key))}; the write processor invokes it on
\* KeyIsLocked results only, so it never panics there.
ExtractLockOfKeyIsLocked ==
    \* the function on every KeyIsLocked and on other results: this part does
    \* not depend on the state and is evaluated where no command was issued yet
    /\ (\A cid \in Cids : ~Dispatched(cid)) =>
           /\ \A k \in Keys, ts \in Ts :
                  extract_lock_from_result(
                      KeyIsLocked(k, [NoLock EXCEPT !.type = "Put", !.ts = ts]))
                      = [panic |-> FALSE, lock |-> [ts |-> ts, hash |-> GenHash(k)]]
           /\ \A kind \in {"None", "WriteConflict", "AlreadyExist", "TxnLockNotFound"} :
                  extract_lock_from_result(MvccErr(kind, 1, 1, 0)).panic
    /\ \A cid \in Cids :
           task[cid].cmd.kind = "AcquirePessimisticLock" /\ Dispatched(cid) =>
               /\ task[cid].pc # "panicked"
               /\ WriteProcessed(cid) /\ task[cid].lock_info.some =>
                      \E i \in LockedByOthers(task[cid].cmd, task[cid].snapshot) :
                          /\ task[cid].lock_info.lock =
                                 [ts |-> load_lock(task[cid].snapshot,
                                                   task[cid].cmd.keys[i][1]).ts,
                                  hash |-> GenHash(task[cid].cmd.keys[i][1])]
                          /\ Len(msgs[cid]) = 1
                          /\ msgs[cid][1].lock = task[cid].lock_info.lock

\* An AcquirePessimisticLock found its second key locked by another
\* transaction and reported that lock.
AcquireExtractedLockOfSecondKey ==
    \E cid \in Cids :
        /\ task[cid].cmd.kind = "AcquirePessimisticLock"
        /\ WriteProcessed(cid)
        /\ LockedByOthers(task[cid].cmd, task[cid].snapshot) = {2}
        /\ task[cid].lock_info.some
        /\ task[cid].lock_info.lock.hash = GenHash(task[cid].cmd.keys[2][1])
        /\ task[cid].lock_info.lock.ts = load_lock(task[cid].snapshot,
                                                   task[cid].cmd.keys[2][1]).ts

\* The KeyIsLocked errors of a Prewrite, one for each mutation whose prewrite
\* returns it on the snapshot, in the order the mutations are processed.
LockedResults(cmd, snapshot) ==
    LET at == SelectSeq([i \in 1..Len(cmd.mutations) |-> i],
                        LAMBDA i : /\ ~IsOk(KeyResult(cmd, snapshot, i))
                                   /\ KeyResult(cmd, snapshot, i).err.kind = "KeyIsLocked")
    IN  [j \in 1..Len(at) |-> KeyResult(cmd, snapshot, at[j]).err]

\* C16: Prewrite attempts every mutation of the batch even after a
\* KeyIsLocked: MultiRes holds exactly one entry for each mutation whose
\* prewrite returned KeyIsLocked, in processing order, and the command result
\* is Ok as long as no other kind of MVCC error occurred.
PrewriteCollectsEveryKeyIsLocked ==
    \A cid \in Cids :
        /\ task[cid].cmd.kind = "Prewrite"
        /\ WriteProcessed(cid)
        /\ \A i \in 1..Len(task[cid].cmd.mutations) :
               ~KeyFails(task[cid].cmd, task[cid].snapshot, i)
        => /\ task[cid].outcome = "Ok"
           /\ task[cid].pr = PrMultiRes(LockedResults(task[cid].cmd, task[cid].snapshot))

\* A Prewrite found its first key locked, went on, and reported the lock of
\* its second key as well.
PrewriteReportedTwoLockedKeys ==
    \E cid \in Cids :
        /\ task[cid].cmd.kind = "Prewrite"
        /\ WriteProcessed(cid)
        /\ task[cid].outcome = "Ok"
        /\ Len(task[cid].cmd.mutations) = 2
        /\ Len(task[cid].pr.results) = 2
        /\ task[cid].pr.results[1].key = IntoRaw(task[cid].cmd.mutations[1].key)
        /\ task[cid].pr.results[2].key = IntoRaw(task[cid].cmd.mutations[2].key)
        /\ msgs[cid] = <<MsgWriteFinished(cid, task[cid].pr, "Ok", "Prewrite")>>

\* The acquire_pessimistic_lock call of an AcquirePessimisticLock for its i-th
\* key, made on the snapshot alone.
AcquireKeyResult(cmd, snapshot, i) ==
    acquire_pessimistic_lock(MvccTxn(snapshot, cmd.start_ts), cmd.keys[i][1], cmd.primary,
                             cmd.keys[i][2], cmd.options)

\* The first key of an AcquirePessimisticLock that another transaction holds
\* locked, when the keys before it are acquired without error; 0 when the
\* command meets no such key.
FirstConflict(cmd, snapshot) ==
    LET L == {i \in LockedByOthers(cmd, snapshot) :
                 \A j \in 1..(i - 1) : IsOk(AcquireKeyResult(cmd, snapshot, j))}
    IN  IF L = {} THEN 0 ELSE CHOOSE i \in L : \A j \in L : i <= j

\* C17: AcquirePessimisticLock stops at the first key that returns
\* KeyIsLocked: the result contains exactly that one conflict, whatever the
\* later keys would return, no mutations are emitted and nothing is written to
\* the engine; the executor posts WaitForLock with the command's ts, the Lock
\* of that conflict, is_first_lock and wait_timeout.
AcquireStopsAtFirstKeyIsLocked ==
    \A cid \in Cids :
        /\ task[cid].cmd.kind = "AcquirePessimisticLock"
        /\ WriteProcessed(cid)
        /\ FirstConflict(task[cid].cmd, task[cid].snapshot) # 0
        => LET cmd == task[cid].cmd
               key == cmd.keys[FirstConflict(cmd, task[cid].snapshot)][1]
               held == load_lock(task[cid].snapshot, key)
           IN  /\ task[cid].outcome = "Ok"
               /\ task[cid].pc = "done"
               /\ task[cid].pr = PrMultiRes(<<KeyIsLocked(key, held)>>)
               /\ task[cid].to_be_write = <<>>
               /\ task[cid].rows = 0
               /\ engineLog[cid] = <<>>
               /\ msgs[cid] = <<MsgWaitForLock(cid, cmd.start_ts, task[cid].pr,
                                               [ts |-> held.ts, hash |-> GenHash(key)],
                                               cmd.options.is_first_lock,
                                               cmd.options.wait_timeout)>>

\* An AcquirePessimisticLock buffered the lock of its first key, found its
\* second key locked by another transaction, and WaitForLock was posted
\* with nothing written.
AcquireWaitsForSecondKey ==
    \E cid \in Cids :
        /\ task[cid].cmd.kind = "AcquirePessimisticLock"
        /\ WriteProcessed(cid)
        /\ FirstConflict(task[cid].cmd, task[cid].snapshot) = 2
        /\ into_modifies(AcquireKeyResult(task[cid].cmd, task[cid].snapshot, 1).txn) # <<>>
        /\ Len(msgs[cid]) = 1
        /\ msgs[cid][1].type = "WaitForLock"
        /\ msgs[cid][1].start_ts = task[cid].cmd.start_ts
        /\ msgs[cid][1].wait_timeout = task[cid].cmd.start_ts
        /\ task[cid].to_be_write = <<>>
        /\ engineLog[cid] = <<>>

\* What process_write_impl returns for the command of a task, computed again
\* from the command, the snapshot and the has_waiter() answer of the task.
WriteResultOf(cid) ==
    process_write_impl(task[cid].cmd, task[cid].snapshot, lockMgr, task[cid].has_waiter)

\* C18: engine.async_write is invoked for a task if and only if the write
\* processor succeeded, lock_info is absent and to_be_write is non-empty, and
\* it is handed to_be_write; when the write processor succeeded with lock_info
\* absent and to_be_write empty the executor posts WriteFinished{result: Ok}
\* directly and the engine is not touched.
AsyncWriteIffOkNoLockNonEmpty ==
    \A cid \in Cids :
        /\ ~WriteProcessed(cid) => engineLog[cid] = <<>>
        /\ WriteProcessed(cid) =>
               \A w \in {WriteResultOf(cid)} :
                   /\ engineLog[cid] # <<>> <=>
                          /\ w.outcome = "Ok"
                          /\ ~w.lock_info.some
                          /\ w.to_be_write # <<>>
                   /\ engineLog[cid] # <<>> => engineLog[cid] = <<w.to_be_write>>
                   /\ w.outcome = "Ok" /\ ~w.lock_info.some /\ w.to_be_write = <<>>
                      => /\ task[cid].pc = "done"
                         /\ engineLog[cid] = <<>>
                         /\ msgs[cid] = <<MsgWriteFinished(cid, w.pr, "Ok",
                                                           task[cid].cmd.kind)>>

\* A Prewrite that met a locked key was reported by WriteFinished{Ok} without
\* the engine, and the write of another command was handed to the engine.
EmptyWriteReportedDirectly ==
    \E cid \in Cids, other \in Cids :
        /\ task[cid].cmd.kind = "Prewrite"
        /\ WriteProcessed(cid)
        /\ task[cid].outcome = "Ok"
        /\ task[cid].pr.results # <<>>
        /\ task[cid].to_be_write = <<>>
        /\ engineLog[cid] = <<>>
        /\ msgs[cid] = <<MsgWriteFinished(cid, task[cid].pr, "Ok", "Prewrite")>>
        /\ WriteProcessed(other)
        /\ task[other].to_be_write # <<>>
        /\ engineLog[other] = <<task[other].to_be_write>>

\* The keys from the scan_key of a ResolveLock on (0 is None: from the first
\* key) whose lock in the snapshot belongs to a transaction of txn_status.
MatchingLocks(cmd, snapshot) ==
    {k \in Keys :
        /\ cmd.scan_key = 0 \/ k >= cmd.scan_key
        /\ load_lock(snapshot, k).type # "None"
        /\ load_lock(snapshot, k).ts \in DOMAIN cmd.txn_status}

\* The j-th key of a set of keys, in key order.
NthKey(keys, j) == CHOOSE k \in keys : Cardinality({x \in keys : x < k}) = j - 1

\* The first RESOLVE_LOCK_BATCH_SIZE matching locks, in key order.
ScannedBatch(cmd, snapshot) ==
    LET M == MatchingLocks(cmd, snapshot)
        n == IF Cardinality(M) < RESOLVE_LOCK_BATCH_SIZE THEN Cardinality(M)
             ELSE RESOLVE_LOCK_BATCH_SIZE
    IN  [j \in 1..n |-> <<NthKey(M, j), load_lock(snapshot, NthKey(M, j))>>]

ResolveChainEndsWithRes == <>(probe.op = "resolve" /\ probe.pc = "done")

\* A lock the chain started from whose status in txn_status is a commit_ts
\* not above the lock's ts: the write phase that meets it fails with
\* InvalidTxnTso.
InvalidStatus ==
    \E k \in Keys :
        /\ probe.locks0[k].type # "None"
        /\ probe.locks0[k].ts \in DOMAIN probe.cmd.txn_status
        /\ probe.cmd.txn_status[probe.locks0[k].ts] # 0
        /\ probe.locks0[k].ts >= probe.cmd.txn_status[probe.locks0[k].ts]

\* C20, amended: with finitely many matching locks and none created, the
\* chain of ResolveLock commands terminates, with Res or with the error of a
\* write phase that met an invalid status; every write-phase round that does
\* not fail removes at least one lock, also when it breaks on size, and a
\* read phase either finds remaining locks or returns Res.
ResolveChainEndsWithResOrErr ==
    /\ <>(/\ probe.op = "resolve"
          /\ \/ probe.pc = "done"
             \/ probe.pc = "failed" /\ InvalidStatus)
    /\ [][probe.op = "resolve" /\ probe.pc = "write" /\ probe'.pc # "failed" =>
              /\ probe.cmd.key_locks # <<>>
              /\ \E k \in Keys : db.locks[k].type # "None" /\ db'.locks[k].type = "None"
              /\ probe'.pc = "read" => probe'.cmd.key_locks = <<>>]_vars
    /\ [][probe.op = "resolve" /\ probe.pc = "read" =>
              \/ probe'.pc = "done"
              \/ probe'.pc = "write" /\ probe'.cmd.key_locks # <<>>]_vars
    /\ [](probe.op = "resolve" /\ probe.pc = "failed" => InvalidStatus)

\* A chain that went through a NextCommand with no key_locks ended with Res
\* after a read phase from the remembered scan_key found no matching lock,
\* the locks of another transaction still being there.
ResolveChainEndedAfterRescan ==
    /\ probe.op = "resolve"
    /\ probe.pc = "done"
    /\ probe.cmd.key_locks = <<>>
    /\ probe.cmd.scan_key > 1
    /\ \E k \in Keys : probe.resolved[k] > 0
    /\ \A k \in Keys : db.locks[k].type # "None" =>
                            db.locks[k].ts \notin DOMAIN probe.cmd.txn_status
    /\ \E k \in Keys : db.locks[k].type # "None"

\* The MVCC call txn_status asks for on the j-th (key, lock) of a ResolveLock,
\* made on the snapshot alone in a transaction of the lock's ts.
StatusResolution(cmd, snapshot, j) ==
    IF cmd.txn_status[cmd.key_locks[j][2].ts] # 0
        THEN commit(MvccTxn(snapshot, cmd.key_locks[j][2].ts), cmd.key_locks[j][1],
                    cmd.txn_status[cmd.key_locks[j][2].ts])
    ELSE rollback(MvccTxn(snapshot, cmd.key_locks[j][2].ts), cmd.key_locks[j][1])

\* txn_status knows the transaction of the j-th lock.
StatusKnown(cmd, j) == cmd.key_locks[j][2].ts \in DOMAIN cmd.txn_status

\* The j-th lock can be resolved: its status is known, is zero or a commit_ts
\* above the lock's ts, and the MVCC call succeeds.
Resolvable(cmd, snapshot, j) ==
    /\ StatusKnown(cmd, j)
    /\ \/ cmd.txn_status[cmd.key_locks[j][2].ts] = 0
       \/ cmd.key_locks[j][2].ts < cmd.txn_status[cmd.key_locks[j][2].ts]
    /\ IsOk(StatusResolution(cmd, snapshot, j))

\* The modifies of resolving the first j locks, in order.
RECURSIVE ResolutionsUpTo(_, _, _)
ResolutionsUpTo(cmd, snapshot, j) ==
    IF j = 0 THEN <<>>
    ELSE ResolutionsUpTo(cmd, snapshot, j - 1)
         \o into_modifies(StatusResolution(cmd, snapshot, j).txn)

\* The loop gets to the j-th lock: every lock before it was resolved and the
\* write size stayed below the limit.
ReachesLock(cmd, snapshot, j) ==
    \A i \in 1..(j - 1) :
        /\ Resolvable(cmd, snapshot, i)
        /\ SizeFrom(ResolutionsUpTo(cmd, snapshot, i), 1) < MAX_TXN_WRITE_SIZE

\* The lock the round ends on: the last one, or the one that filled the batch.
EndsOnLock(cmd, snapshot, j) ==
    /\ ReachesLock(cmd, snapshot, j)
    /\ Resolvable(cmd, snapshot, j)
    /\ \/ j = Len(cmd.key_locks)
       \/ SizeFrom(ResolutionsUpTo(cmd, snapshot, j), 1) >= MAX_TXN_WRITE_SIZE

\* C21: in the ResolveLock write phase each processed (key, lock) is resolved
\* according to txn_status[lock.ts] only: committed at that commit_ts when it
\* is non-zero, rolled back when it is zero, in a transaction whose start_ts
\* is lock.ts; a lock whose ts has no entry in txn_status is a panic, never
\* silently skipped.
ResolveWriteFollowsTxnStatus ==
    probe.op = "resolve_write" /\ probe.pc = "processed" =>
        /\ probe.w.outcome = "Ok" =>
               \E n \in DOMAIN probe.cmd.key_locks :
                   /\ EndsOnLock(probe.cmd, db, n)
                   /\ probe.w.to_be_write = ResolutionsUpTo(probe.cmd, db, n)
        /\ probe.w.outcome = "Panic" <=>
               \E j \in DOMAIN probe.cmd.key_locks :
                   ReachesLock(probe.cmd, db, j) /\ ~StatusKnown(probe.cmd, j)
        /\ probe.w.outcome = "Panic" => probe.w.to_be_write = <<>>

\* A write phase rolled back the lock of one transaction and committed the
\* lock of another at its commit_ts in one batch.
ResolveWriteCommittedAndRolledBack ==
    /\ probe.op = "resolve_write"
    /\ probe.pc = "processed"
    /\ probe.w.outcome = "Ok"
    /\ \E i, j \in DOMAIN probe.w.to_be_write :
           /\ probe.w.to_be_write[i].cf = "write"
           /\ probe.w.to_be_write[i].write.type = "Put"
           /\ probe.w.to_be_write[i].write.start_ts = 2
           /\ probe.w.to_be_write[i].ts = probe.cmd.txn_status[2]
           /\ probe.w.to_be_write[j].cf = "write"
           /\ probe.w.to_be_write[j].write.type = "Rollback"
           /\ probe.w.to_be_write[j].ts = 1
           /\ probe.cmd.txn_status[1] = 0

\* The (lock.ts, lock.for_update_ts != 0) pairs among the first n locks of a
\* ResolveLock.
LockPairs(cmd, n) ==
    {<<cmd.key_locks[j][2].ts, cmd.key_locks[j][2].for_update_ts # 0>> : j \in 1..n}

\* The hashes of the keys of a pair among the first n locks, in the order the
\* locks are processed.
PairHashes(cmd, n, pair) ==
    LET at == SelectSeq([j \in 1..n |-> j],
                        LAMBDA j : /\ cmd.key_locks[j][2].ts = pair[1]
                                   /\ (cmd.key_locks[j][2].for_update_ts # 0) = pair[2])
    IN  [i \in 1..Len(at) |-> GenHash(cmd.key_locks[at[i]][1])]

\* C22: after a successful ResolveLock write phase wake-up is issued exactly
\* once for each distinct (lock.ts, lock.for_update_ts != 0) pair among the
\* locks processed up to and including the key where the loop broke, with
\* commit_ts zero; when waiters exist the hashes passed for a pair are exactly
\* the hashes of the processed keys of that pair; the locks after the break
\* contribute no bucket and no hash.  Without a lock manager there is no
\* wake-up to issue.
ResolveWakesEachPairOnce ==
    probe.op = "resolve_write" /\ probe.pc = "processed" /\ probe.w.outcome = "Ok" =>
        \E n \in DOMAIN probe.cmd.key_locks :
            /\ EndsOnLock(probe.cmd, db, n)
            /\ ~lockMgr => probe.w.wakes = <<>>
            /\ lockMgr =>
                   /\ Len(probe.w.wakes) = Cardinality(LockPairs(probe.cmd, n))
                   /\ \A pair \in LockPairs(probe.cmd, n) :
                          \E i \in DOMAIN probe.w.wakes :
                              probe.w.wakes[i] =
                                  [lock_ts |-> pair[1],
                                   key_hashes |->
                                       IF probe.has_waiter
                                           THEN Some(PairHashes(probe.cmd, n, pair))
                                       ELSE None,
                                   commit_ts |-> 0,
                                   is_pessimistic_txn |-> pair[2]]

\* A write phase that broke on size before the end of its batch woke the
\* optimistic and the pessimistic locks of one transaction apart, each with
\* the hash of its key.
ResolveWokeTwoPairsOfOneTxn ==
    /\ probe.op = "resolve_write"
    /\ probe.pc = "processed"
    /\ probe.w.outcome = "Ok"
    /\ probe.has_waiter
    /\ probe.w.pr.kind = "NextCommand"
    /\ \E n \in DOMAIN probe.cmd.key_locks :
           EndsOnLock(probe.cmd, db, n) /\ n < Len(probe.cmd.key_locks)
    /\ Len(probe.w.wakes) = 2
    /\ probe.w.wakes[1].lock_ts = probe.w.wakes[2].lock_ts
    /\ probe.w.wakes[1].is_pessimistic_txn # probe.w.wakes[2].is_pessimistic_txn
    /\ Len(probe.w.wakes[1].key_hashes.v) = 1
    /\ Len(probe.w.wakes[2].key_hashes.v) = 1

\* What check_txn_status returns for a CheckTxnStatus command on a snapshot.
StatusChecked(cmd, snapshot) ==
    check_txn_status(MvccTxn(snapshot, cmd.lock_ts), cmd.primary_key, cmd.caller_start_ts,
                     cmd.current_ts, cmd.rollback_if_not_exist)

\* C23: CheckTxnStatus wakes waiters on (lock_ts, hash of primary_key,
\* commit_ts = 0) only when check_txn_status returns TtlExpire or
\* LockNotExist; when it returns RolledBack, Committed or Uncommitted, or
\* fails, no wake-up is issued; TxnHeartBeat never issues a wake-up.
CheckTxnStatusWakesOnlyOnCleanedLock ==
    \A cid \in Cids :
        /\ task[cid].cmd.kind = "TxnHeartBeat" => wakeups[cid] = <<>>
        /\ task[cid].cmd.kind = "CheckTxnStatus" /\ WriteProcessed(cid) =>
               \A r \in {StatusChecked(task[cid].cmd, task[cid].snapshot)} :
                   IF IsOk(r) /\ r.val[1].kind \in {"TtlExpire", "LockNotExist"} /\ lockMgr
                       THEN wakeups[cid] =
                                <<[lock_ts |-> task[cid].cmd.lock_ts,
                                   key_hashes |->
                                       IF task[cid].has_waiter
                                           THEN Some(<<GenHash(task[cid].cmd.primary_key)>>)
                                       ELSE None,
                                   commit_ts |-> 0,
                                   is_pessimistic_txn |-> r.val[2]]>>
                   ELSE wakeups[cid] = <<>>

\* With a lock manager, one CheckTxnStatus found the primary lock alive and
\* woke nobody, and another found it expired, rolled it back and woke the
\* waiters of the primary key.
CheckTxnStatusWokeOnTtlExpire ==
    \E cid \in Cids, other \in Cids :
        /\ task[cid].cmd.kind = "CheckTxnStatus"
        /\ WriteProcessed(cid)
        /\ task[cid].outcome = "Ok"
        /\ task[cid].pr.txn_status.kind = "TtlExpire"
        /\ task[cid].has_waiter
        /\ Len(wakeups[cid]) = 1
        /\ wakeups[cid][1].key_hashes = Some(<<GenHash(task[cid].cmd.primary_key)>>)
        /\ wakeups[cid][1].commit_ts = 0
        /\ task[other].cmd.kind = "CheckTxnStatus"
        /\ WriteProcessed(other)
        /\ task[other].outcome = "Ok"
        /\ task[other].pr.txn_status.kind = "Uncommitted"
        /\ wakeups[other] = <<>>

\* C24: the commit_ts argument of wake-up tells how the lock was released: a
\* successful Commit passes its commit_ts, while Cleanup, Rollback and
\* PessimisticRollback pass zero; PessimisticRollback always passes
\* is_pessimistic_txn = true, and fails an assertion, leaving no result and
\* no mutations, when the executor has no lock manager.
WakeUpCarriesHowLockWasReleased ==
    \A cid \in Cids :
        /\ WriteProcessed(cid) /\ task[cid].outcome = "Ok" /\ lockMgr =>
               /\ task[cid].cmd.kind = "Commit" =>
                      /\ Len(wakeups[cid]) = 1
                      /\ wakeups[cid][1].lock_ts = task[cid].cmd.lock_ts
                      /\ wakeups[cid][1].commit_ts = task[cid].cmd.commit_ts
                      /\ wakeups[cid][1].commit_ts # 0
               /\ task[cid].cmd.kind \in {"Cleanup", "Rollback", "PessimisticRollback"} =>
                      /\ Len(wakeups[cid]) = 1
                      /\ wakeups[cid][1].lock_ts = task[cid].cmd.start_ts
                      /\ wakeups[cid][1].commit_ts = 0
               /\ task[cid].cmd.kind = "PessimisticRollback" =>
                      wakeups[cid][1].is_pessimistic_txn
        /\ /\ task[cid].cmd.kind = "PessimisticRollback"
           /\ ~lockMgr
           /\ task[cid].pc \notin {"new", "proc_job", "err_job"}
           /\ task[cid].snapshot_err = NoErr
           => /\ task[cid].pc = "panicked"
              /\ msgs[cid] = <<>>
              /\ engineLog[cid] = <<>>
              /\ wakeups[cid] = <<>>

\* A Commit woke the waiters with its commit_ts, and a PessimisticRollback,
\* its keys holding no pessimistic lock, woke them with zero and
\* is_pessimistic_txn = true.
CommitAndPessimisticRollbackWoke ==
    \E cid \in Cids, other \in Cids :
        /\ task[cid].cmd.kind = "Commit"
        /\ WriteProcessed(cid)
        /\ Len(wakeups[cid]) = 1
        /\ wakeups[cid][1].commit_ts = task[cid].cmd.commit_ts
        /\ ~wakeups[cid][1].is_pessimistic_txn
        /\ task[other].cmd.kind = "PessimisticRollback"
        /\ WriteProcessed(other)
        /\ Len(wakeups[other]) = 1
        /\ wakeups[other][1].commit_ts = 0
        /\ wakeups[other][1].is_pessimistic_txn
        /\ task[other].to_be_write = <<>>

\* The Prewrite in probe was processed around the fast-path threshold.
FastPathProcessed == probe.op = "fast_path" /\ probe.pc = "processed"

\* The keys of a batch of mutations.
MutationKeys(mutations) == {mutations[i].key : i \in DOMAIN mutations}

\* The write column family holds a record of a key between the smallest and
\* the largest key of the batch.
WriteInRangeOf(mutations, snapshot) ==
    \E k \in Keys :
        /\ \E lo \in MutationKeys(mutations), hi \in MutationKeys(mutations) :
               lo <= k /\ k <= hi
        /\ snapshot.writes[k] # {}

\* The three conditions of the fast path.
FastPathConditions(cmd, snapshot) ==
    /\ cmd.options.for_update_ts = 0
    /\ Len(cmd.mutations) > FORWARD_MIN_MUTATIONS_NUM
    /\ ~WriteInRangeOf(cmd.mutations, snapshot)

\* C25, as stated: the sort of the mutations, skip_constraint_check forced to
\* true and the forward scan mode are engaged only when for_update_ts is
\* zero, there are more than FORWARD_MIN_MUTATIONS_NUM mutations and the
\* write column family has no data in the range of the keys.
FastPathOnlyUnderConditions ==
    FastPathProcessed =>
        (probe.fast # [mutations |-> probe.cmd.mutations, options |-> probe.cmd.options,
                       scan_mode |-> "None"]
            => FastPathConditions(probe.cmd, db))

\* C25, amended: skip_constraint_check is forced to true and the forward scan
\* mode requested exactly under the three conditions; the mutations are
\* sorted by key for every optimistic batch of more than
\* FORWARD_MIN_MUTATIONS_NUM mutations, whether or not the range holds data;
\* with FORWARD_MIN_MUTATIONS_NUM or fewer mutations, or for a pessimistic
\* prewrite, the caller's options and the mutation order are left unchanged.
FastPathSortsEveryLargeBatch ==
    FastPathProcessed =>
        /\ IF FastPathConditions(probe.cmd, db)
               THEN /\ probe.fast.options =
                           [probe.cmd.options EXCEPT !.skip_constraint_check = TRUE]
                    /\ probe.fast.scan_mode = "Forward"
           ELSE /\ probe.fast.options = probe.cmd.options
                /\ probe.fast.scan_mode = "None"
        /\ IF /\ probe.cmd.options.for_update_ts = 0
              /\ Len(probe.cmd.mutations) > FORWARD_MIN_MUTATIONS_NUM
               THEN /\ \A i \in 1..(Len(probe.fast.mutations) - 1) :
                           probe.fast.mutations[i].key <= probe.fast.mutations[i + 1].key
                    /\ Len(probe.fast.mutations) = Len(probe.cmd.mutations)
                    /\ \A m \in Range(probe.cmd.mutations) :
                           Cardinality({i \in DOMAIN probe.cmd.mutations :
                                           probe.cmd.mutations[i] = m})
                           = Cardinality({i \in DOMAIN probe.fast.mutations :
                                             probe.fast.mutations[i] = m})
           ELSE probe.fast.mutations = probe.cmd.mutations

\* An optimistic batch of more than FORWARD_MIN_MUTATIONS_NUM mutations, not
\* given in key order, met a write record in its range: it was sorted, and
\* the constraint check, kept on, failed it.
LargeBatchSortedWithDataInRange ==
    /\ FastPathProcessed
    /\ probe.cmd.options.for_update_ts = 0
    /\ Len(probe.cmd.mutations) > FORWARD_MIN_MUTATIONS_NUM
    /\ WriteInRangeOf(probe.cmd.mutations, db)
    /\ probe.fast.mutations # probe.cmd.mutations
    /\ ~probe.fast.options.skip_constraint_check
    /\ probe.fast.scan_mode = "None"
    /\ probe.got.outcome = "Err"

\* C26: when the fast path of Prewrite is engaged, the command makes exactly
\* one seek on the write column family, that of the range check, whatever the
\* number of mutations, their order and the primary.
FastPathMakesOneWriteSeek ==
    (FastPathProcessed /\ FastPathConditions(probe.cmd, db)) => probe.seeks = 1

\* A batch given in descending key order, whose primary is the largest key,
\* took the fast path on an empty range, locked every key and made one seek.
FastPathLockedEveryKeyWithOneSeek ==
    /\ FastPathProcessed
    /\ FastPathConditions(probe.cmd, db)
    /\ probe.cmd.primary = NumKeys
    /\ probe.cmd.mutations[1].key > probe.cmd.mutations[2].key
    /\ probe.got.outcome = "Ok"
    /\ probe.got.rows = Len(probe.cmd.mutations)
    /\ probe.got.pr = PrMultiRes(<<>>)
    /\ Len(probe.got.to_be_write) > 0
    /\ probe.seeks = 1

\* find_mvcc_infos_by_key has returned for the key in probe.
MvccInfosReturned == probe.op = "mvcc_by_key" /\ probe.pc = "returned"

\* What find_mvcc_infos_by_key returned holds the lock of the key, its write
\* records, each once and newest first, and its values.
MvccInfosComplete ==
    /\ probe.lock = db.locks[probe.key]
    /\ Len(probe.writes) = Cardinality(db.writes[probe.key])
    /\ {probe.writes[i][2] : i \in DOMAIN probe.writes} = db.writes[probe.key]
    /\ \A i \in DOMAIN probe.writes : probe.writes[i][1] = probe.writes[i][2].commit_ts
    /\ \A i \in DOMAIN probe.writes : \A j \in DOMAIN probe.writes :
           i < j => probe.writes[i][1] > probe.writes[j][1]
    /\ Len(probe.values) = Cardinality(db.defaults[probe.key])
    /\ Range(probe.values) = db.defaults[probe.key]
    /\ process_read_impl(CmdMvccByKey(probe.key), db).pr
           = PrMvccKey([lock |-> probe.lock, writes |-> probe.writes,
                        values |-> probe.values])

\* C27: find_mvcc_infos_by_key returns, and what it returns is the lock of
\* the key (if any), every write record of the key exactly once in strictly
\* descending order of commit_ts, and all values of the key in the default
\* column family.
MvccInfosReturnsWholeHistory ==
    /\ <>MvccInfosReturned
    /\ [](MvccInfosReturned => MvccInfosComplete)

\* The function returned for a locked key with write records at two
\* neighbouring timestamps and two values.
MvccInfosOfLockedKeyWithNeighbours ==
    /\ MvccInfosReturned
    /\ probe.lock.type # "None"
    /\ Len(probe.writes) >= 2
    /\ probe.writes[1][1] = probe.writes[2][1] + 1
    /\ Len(probe.values) = 2

\* The batch the write processor of cid handed to async_write deletes a lock.
ReleasedLocks(cid) ==
    /\ WriteProcessed(cid)
    /\ engineLog[cid] # <<>>
    /\ \E i \in DOMAIN engineLog[cid][1] :
           engineLog[cid][1][i].cf = "lock" /\ engineLog[cid][1][i].op = "Delete"

\* The engine write of cid is pending, was rejected by async_write itself, or
\* was completed with an error.
EngineWritePending(cid) == task[cid].pc = "engine"

EngineWriteRejected(cid) == task[cid].pc = "done" /\ task[cid].async_write_err # NoErr

EngineWriteFailed(cid) == task[cid].pc \in {"cb_job", "done"} /\ task[cid].result = "Err"

\* The wake_up calls of cid are those of a command that released locks: of
\* the command's transaction, or for ResolveLock of the transactions of the
\* locks it released.
WokeForReleasedLocks(cid) ==
    /\ wakeups[cid] # <<>>
    /\ \A i \in DOMAIN wakeups[cid] :
           IF task[cid].cmd.kind = "ResolveLock"
               THEN \E j \in DOMAIN task[cid].cmd.key_locks :
                        task[cid].cmd.key_locks[j][2].ts = wakeups[cid][i].lock_ts
           ELSE wakeups[cid][i].lock_ts = CmdTs(task[cid].cmd)

\* C28: with a lock manager, a write command that releases locks has issued
\* its wake_up inside the write processor, before the batch goes to
\* async_write: the calls are there in every state where the engine write is
\* pending, was rejected synchronously or completed with an error, and no
\* later step takes a call back.
WakeUpIssuedBeforeAsyncWrite ==
    /\ [](\A cid \in Cids :
            (lockMgr /\ ReleasedLocks(cid)
                /\ (EngineWritePending(cid) \/ EngineWriteRejected(cid)
                       \/ EngineWriteFailed(cid)))
                => WokeForReleasedLocks(cid))
    /\ [][\A cid \in Cids :
              /\ Len(wakeups'[cid]) >= Len(wakeups[cid])
              /\ SubSeq(wakeups'[cid], 1, Len(wakeups[cid])) = wakeups[cid]]_vars

\* One command released locks and its engine write failed, another released
\* locks and async_write rejected its batch: both had woken the waiters, and
\* the locks are still in the engine.
WokeAlthoughEngineWriteFailed ==
    \E c1 \in Cids : \E c2 \in Cids :
        /\ lockMgr
        /\ ReleasedLocks(c1) /\ EngineWriteFailed(c1) /\ task[c1].pc = "done"
        /\ ReleasedLocks(c2) /\ EngineWriteRejected(c2)
        /\ WokeForReleasedLocks(c1) /\ WokeForReleasedLocks(c2)
        /\ \E k \in Keys : db.locks[k].type # "None"

\* The MVCC operation of cmd on its i-th key, made on the snapshot alone.
KeyOperation(cmd, snapshot, i) ==
    CASE cmd.kind = "Commit" ->
            commit(MvccTxn(snapshot, cmd.lock_ts), cmd.keys[i], cmd.commit_ts)
      [] cmd.kind = "Cleanup" ->
            cleanup(MvccTxn(snapshot, cmd.start_ts), cmd.key, cmd.current_ts)
      [] cmd.kind = "Rollback" -> rollback(MvccTxn(snapshot, cmd.start_ts), cmd.keys[i])
      [] cmd.kind = "PessimisticRollback" ->
            pessimistic_rollback(MvccTxn(snapshot, cmd.start_ts), cmd.keys[i],
                                 cmd.for_update_ts)
      [] cmd.kind = "ResolveLockLite" ->
            IF cmd.commit_ts # 0
                THEN commit(MvccTxn(snapshot, cmd.start_ts), cmd.resolve_keys[i],
                            cmd.commit_ts)
            ELSE rollback(MvccTxn(snapshot, cmd.start_ts), cmd.resolve_keys[i])
      [] cmd.kind = "CheckTxnStatus" ->
            check_txn_status(MvccTxn(snapshot, cmd.lock_ts), cmd.primary_key,
                             cmd.caller_start_ts, cmd.current_ts,
                             cmd.rollback_if_not_exist)

\* The number of keys cmd works on.
KeysOf(cmd) ==
    CASE cmd.kind \in {"Commit", "Rollback", "PessimisticRollback"} -> Len(cmd.keys)
      [] cmd.kind = "ResolveLockLite" -> Len(cmd.resolve_keys)
      [] cmd.kind \in {"Cleanup", "CheckTxnStatus"} -> 1

\* Every MVCC operation the command makes succeeds; for ResolveLock, those on
\* the locks up to the one the round ends on.
EveryKeyOperationSucceeds(cmd, snapshot) ==
    IF cmd.kind = "ResolveLock"
        THEN \E j \in DOMAIN cmd.key_locks : EndsOnLock(cmd, snapshot, j)
    ELSE /\ cmd.kind \in {"Commit", "Cleanup", "Rollback", "PessimisticRollback",
                          "ResolveLockLite", "CheckTxnStatus"}
         /\ \A i \in 1..KeysOf(cmd) : IsOk(KeyOperation(cmd, snapshot, i))

\* The write processor has returned for the command in probe.
ReleaseProcessed == probe.op = "release" /\ probe.pc = "processed"

\* C29: a command for which the write processor returns an error has made no
\* wake_up call, and a command that made one did so after every MVCC
\* operation on its keys had succeeded.
NoWakeUpWhenWriteProcessorFails ==
    ReleaseProcessed =>
        /\ probe.w.outcome = "Err" => probe.w.wakes = <<>>
        /\ probe.w.wakes # <<>> => EveryKeyOperationSucceeds(probe.cmd, db)

\* The keys of a Commit, a Rollback or a ResolveLockLite.
ReleasedKeys(cmd) == IF cmd.kind = "ResolveLockLite" THEN cmd.resolve_keys ELSE cmd.keys

\* With a lock manager and a waiter, the operation on the first key of a
\* command released a lock and that on the second key failed: the command
\* returned the error and woke nobody.
FailedOnSecondKeyWokeNobody ==
    /\ ReleaseProcessed
    /\ lockMgr
    /\ probe.has_waiter
    /\ probe.cmd.kind \in {"Commit", "Rollback", "ResolveLockLite"}
    /\ Len(ReleasedKeys(probe.cmd)) = 2
    /\ probe.w.outcome = "Err"
    /\ IsOk(KeyOperation(probe.cmd, db, 1))
    /\ \E m \in Range(into_modifies(KeyOperation(probe.cmd, db, 1).txn)) :
           m.cf = "lock" /\ m.op = "Delete"
    /\ ~IsOk(KeyOperation(probe.cmd, db, 2))
    /\ probe.w.wakes = <<>>

\* C30: the is_pessimistic_txn of the wake_up call of Commit, Rollback and
\* ResolveLockLite is what the MVCC operation on the last key returned,
\* whatever those on the keys before it returned, and false when the
\* command has no key.
WakeUpFlagIsThatOfLastKey ==
    (/\ ReleaseProcessed
     /\ probe.cmd.kind \in {"Commit", "Rollback", "ResolveLockLite"}
     /\ probe.w.outcome = "Ok"
     /\ lockMgr)
        => /\ Len(probe.w.wakes) = 1
           /\ probe.w.wakes[1].is_pessimistic_txn
                  = IF ReleasedKeys(probe.cmd) = <<>> THEN FALSE
                    ELSE KeyOperation(probe.cmd, db, Len(ReleasedKeys(probe.cmd))).val

\* A Commit released a pessimistic transaction's lock on its first key and an
\* optimistic lock on its last: the waiters were woken with
\* is_pessimistic_txn false.
CommitWokeWithFlagOfLastKey ==
    /\ ReleaseProcessed
    /\ probe.cmd.kind = "Commit"
    /\ probe.w.outcome = "Ok"
    /\ Len(probe.cmd.keys) = 2
    /\ KeyOperation(probe.cmd, db, 1).val
    /\ ~KeyOperation(probe.cmd, db, 2).val
    /\ Len(probe.w.wakes) = 1
    /\ ~probe.w.wakes[1].is_pessimistic_txn

\* The command in probe returned from the write processor having woken
\* waiters.
ReturnedWithWakeUp ==
    /\ probe.op = "sample"
    /\ probe.pc = "returned"
    /\ probe.w.outcome = "Ok"
    /\ probe.w.wakes # <<>>

\* All the keys of a command that wakes waiters.
AllKeys(cmd) ==
    CASE cmd.kind = "Cleanup" -> <<cmd.key>>
      [] cmd.kind = "CheckTxnStatus" -> <<cmd.primary_key>>
      [] cmd.kind = "ResolveLockLite" -> cmd.resolve_keys
      [] cmd.kind = "ResolveLock" -> [j \in DOMAIN cmd.key_locks |-> cmd.key_locks[j][1]]
      [] OTHER -> cmd.keys

\* The hashes of a sequence of keys.
KeyHashes(keys) == [i \in DOMAIN keys |-> GenHash(keys[i])]

\* C31, as stated: has_waiter() is asked once per command, before any key is
\* committed or rolled back, and the key hashes of wake_up are those of all
\* the keys of the command when the answer was true, absent otherwise.
HasWaiterSampledBeforeAnyKey ==
    ReturnedWithWakeUp =>
        /\ probe.samples = 1
        /\ probe.sampled_at = "before"
        /\ \A i \in DOMAIN probe.w.wakes :
               probe.w.wakes[i].key_hashes
                   = IF probe.has_waiter THEN Some(KeyHashes(AllKeys(probe.cmd))) ELSE None

\* C31, amended: a command that wakes waiters has asked has_waiter() exactly
\* once: Commit, Cleanup, Rollback, PessimisticRollback, ResolveLockLite and
\* ResolveLock before their first MVCC call, CheckTxnStatus after
\* check_txn_status has returned.  That answer decides the key hashes: for
\* ResolveLock each wake_up carries the hashes of the processed keys of its
\* (lock.ts, pessimistic) pair, for the others the hashes of all the keys of
\* the command, when the answer was true, and none when it was false, also
\* when a waiter has registered since.
HasWaiterAnswerDecidesKeyHashes ==
    /\ probe.op = "sample" => probe.samples <= 1
    /\ ReturnedWithWakeUp =>
        /\ probe.samples = 1
        /\ probe.sampled_at = IF probe.cmd.kind = "CheckTxnStatus" THEN "after"
                              ELSE "before"
        /\ probe.cmd.kind # "ResolveLock" =>
               \A i \in DOMAIN probe.w.wakes :
                   probe.w.wakes[i].key_hashes
                       = IF probe.has_waiter THEN Some(KeyHashes(AllKeys(probe.cmd)))
                         ELSE None
        /\ probe.cmd.kind = "ResolveLock" =>
               \E n \in DOMAIN probe.cmd.key_locks :
                   /\ EndsOnLock(probe.cmd, db, n)
                   /\ \A i \in DOMAIN probe.w.wakes :
                          \E pair \in LockPairs(probe.cmd, n) :
                              /\ probe.w.wakes[i].lock_ts = pair[1]
                              /\ probe.w.wakes[i].is_pessimistic_txn = pair[2]
                              /\ probe.w.wakes[i].key_hashes
                                     = IF probe.has_waiter
                                           THEN Some(PairHashes(probe.cmd, n, pair))
                                       ELSE None

\* A waiter registered after a Commit had asked has_waiter() and before it
\* woke the lock manager: the locks were released with a wake_up that
\* carries no key hashes.
LateWaiterWokenWithoutKeyHashes ==
    /\ ReturnedWithWakeUp
    /\ probe.cmd.kind = "Commit"
    /\ probe.sampled_at = "before"
    /\ ~probe.has_waiter
    /\ probe.waiters
    /\ \E i \in DOMAIN probe.w.to_be_write :
           probe.w.to_be_write[i].cf = "lock" /\ probe.w.to_be_write[i].op = "Delete"
    /\ Len(probe.w.wakes) = 1
    /\ probe.w.wakes[1].key_hashes = None
====
